---- MODULE Spec2Model ----
(***************************************************************************)
(* A model of the pdb-sdk crate: the MSF container (src/src/msf.rs,        *)
(* src/src/builders.rs, src/src/lib.rs), the CodeView record framing       *)
(* (src/src/codeview.rs, src/src/codecs.rs), numeric leaves                *)
(* (src/src/lib.rs), the v1 name hash (src/src/hash.rs), the GSI symbol    *)
(* map (src/src/symbol_map.rs) and the case-insensitive name order         *)
(* (src/src/utils.rs).                                                     *)
(*                                                                         *)
(* Bytes are the integers 0..255, byte strings are sequences of bytes,     *)
(* and every multi-byte integer is little-endian as in constants.rs.       *)
(* Each area has its own specification over the shared variables:          *)
(*   Spec          PdbBuilder::commit, PdbFile::open, stream reads         *)
(*   SpecHash      hash_v1                                                 *)
(*   SpecCmp       CaseInsensitiveStr::cmp                                 *)
(*   SpecSymbolMap SymbolsBuilder::add, SymbolMap::from_symbols            *)
(*   SpecInteger   Integer encode / decode                                 *)
(*   SpecRecord    PrefixedRecord encode / decode                          *)
(***************************************************************************)
EXTENDS Integers, Sequences, FiniteSets, TLC

VARIABLES
    pc,          \* position of the running operation
    hashArg,     \* hash_v1: the byte string given
    hashRes,     \* hash_v1: the value returned
    cmpArgs,     \* CaseInsensitiveStr: three names <<a, b, c>>
    cmpRes,      \* CaseInsensitiveStr: the orderings computed for them
    symbols,     \* SymbolsBuilder { globals, offset }
    symbolMap,   \* SymbolMap { hash_records, bitmap, buckets }
    intVal,      \* Integer: the value to encode
    intBytes,    \* Integer: the bytes Encode wrote
    intDec,      \* Integer: what Decode returned for them
    record,      \* PrefixedRecord: the record to encode
    recBytes,    \* PrefixedRecord: the bytes Encode wrote
    recDec,      \* PrefixedRecord: what decode returned for them
    sink,        \* commit: the io::Cursor<Vec<u8>> written to
    allocator,   \* commit: StreamAllocator.streams
    builtin,     \* commit: the layouts held for insert_builtin
    written,     \* commit: the bytes handed to each stream writer, by stream index
    superblock,  \* commit: the SuperBlock written at offset 0
    pdbFile,     \* PdbFile::open: the result (layouts, block_size) or an error
    readback,    \* the bytes read from each logical stream of pdbFile
    writer,      \* MsfStreamWriter { blocks, position } of the stream being written
    finished,    \* the bytes accepted by each writer that was finished, in order
    typeBuilder, \* TypeStreamBuilder { records, hashes, offset, index }
    typeAdded,   \* the calls of add so far: name, record and the index returned
    typeLayout,  \* the layout TypeStreamBuilder::commit returned
    typeStream,  \* what TypeStream::read and TypeHash::read returned
    dirEntries,  \* the entries of the directory of a file given to open
    bucketArg,   \* the argument of get_bucket_count
    bucketRes,   \* what get_bucket_count returned
    stringsBuilder, \* StringsBuilder { bytes, offsets }
    stringsAdded,   \* the strings given to add so far
    strings,     \* the Strings that build returned
    pubBuilder,  \* SymbolsBuilder { publics, offset }
    publics,     \* the Publics that from_publics returned
    pubWritten,  \* the bytes write_with_header wrote
    msfStream,   \* MsfStream { position } and the position of its inner reader
    symBuilder,  \* SymbolsBuilder { publics, globals, offset }
    symAdded,    \* the calls of add so far: the record and the offset returned
    symStream,   \* the bytes SymbolsBuilder::commit wrote to the symbol stream
    pdbBuilder,  \* PdbBuilder { info, dbi }
    pdbRead,     \* what get_info and get_dbi returned for the committed file
    headerArg,   \* a stream that starts with a header of some version
    headerRes    \* what the read function of the stream returned for it

hashVars == <<hashArg, hashRes>>
cmpVars  == <<cmpArgs, cmpRes>>
symVars  == <<symbols, symbolMap>>
intVars  == <<intVal, intBytes, intDec>>
recVars  == <<record, recBytes, recDec>>
msfVars  == <<sink, allocator, builtin, written, superblock, pdbFile, readback>>
typeVars == <<typeBuilder, typeAdded, typeLayout, typeStream>>
writerVars == <<writer, finished>>
strVars  == <<bucketArg, bucketRes, stringsBuilder, stringsAdded, strings>>
pubVars  == <<pubBuilder, publics, pubWritten>>
seekVars == <<msfStream>>
symsVars == <<symBuilder, symAdded, symStream>>
pdbVars  == <<pdbBuilder, pdbRead>>
verVars  == <<headerArg, headerRes>>
lastVars == <<seekVars, symsVars, pdbVars, verVars>>
lateVars == <<strVars, pubVars, lastVars>>
extVars  == <<writerVars, typeVars, dirEntries, lateVars>>
\* the variables of the other areas, for the actions of one area
exceptWriter == <<hashVars, cmpVars, symVars, intVars, recVars, typeVars, dirEntries,
                  lateVars>>
exceptTypes  == <<hashVars, cmpVars, symVars, intVars, recVars, writerVars, dirEntries,
                  lateVars>>
exceptDir    == <<hashVars, cmpVars, symVars, intVars, recVars, writerVars, typeVars,
                  lateVars>>
exceptStr    == <<hashVars, cmpVars, symVars, intVars, recVars, msfVars, writerVars,
                  typeVars, dirEntries, pubVars, lastVars>>
exceptPub    == <<hashVars, cmpVars, symVars, intVars, recVars, msfVars, writerVars,
                  typeVars, dirEntries, strVars, lastVars>>
\* the variables of the areas above
earlyVars    == <<hashVars, cmpVars, symVars, intVars, recVars, writerVars, typeVars,
                  dirEntries, strVars, pubVars>>
exceptSeek   == <<earlyVars, symsVars, pdbVars, verVars>>
exceptSyms   == <<earlyVars, seekVars, pdbVars, verVars>>
exceptPdb    == <<earlyVars, seekVars, symsVars, verVars>>
exceptVer    == <<earlyVars, msfVars, seekVars, symsVars, pdbVars>>
vars     == <<pc, hashVars, cmpVars, symVars, intVars, recVars, msfVars, extVars>>

(***************************************************************************)
(* Machine arithmetic                                                      *)
(***************************************************************************)
Pow2(n) == 2 ^ n

Min(a, b) == IF a <= b THEN a ELSE b
Max(a, b) == IF a >= b THEN a ELSE b

RECURSIVE BitXor(_, _)
BitXor(a, b) ==
    IF a = 0 THEN b
    ELSE IF b = 0 THEN a
    ELSE (((a % 2) + (b % 2)) % 2) + 2 * BitXor(a \div 2, b \div 2)

RECURSIVE BitOr(_, _)
BitOr(a, b) ==
    IF a = 0 THEN b
    ELSE IF b = 0 THEN a
    ELSE Max(a % 2, b % 2) + 2 * BitOr(a \div 2, b \div 2)

RECURSIVE BitAnd(_, _)
BitAnd(a, b) ==
    IF a = 0 \/ b = 0 THEN 0
    ELSE ((a % 2) * (b % 2)) + 2 * BitAnd(a \div 2, b \div 2)

Shr(a, n) == a \div Pow2(n)

\* v as n little-endian bytes (v >= 0)
LE(v, n) == [i \in 1..n |-> (v \div (256 ^ (i - 1))) % 256]

\* the little-endian value of a byte string
RECURSIVE FromLE(_)
FromLE(bs) == IF bs = <<>> THEN 0 ELSE bs[1] + 256 * FromLE(Tail(bs))

\* bs[from..to] (1-based, empty when from > to)
Slice(bs, from, to) == [i \in 1..(to - from + 1) |-> bs[from + i - 1]]
Drop(bs, n) == Slice(bs, n + 1, Len(bs))
Take(bs, n) == Slice(bs, 1, Min(n, Len(bs)))

Zeros(n) == [i \in 1..n |-> 0]

\* all sequences over S of length at most n
SeqsUpTo(S, n) == UNION {[1..k -> S] : k \in 0..n}

\* utils.rs
div_ceil(lhs, rhs) == (lhs + rhs - 1) \div rhs
align_to(val, align) == ((val + align - 1) \div align) * align

(***************************************************************************)
(* hash.rs: hash_v1.  A u32 is kept as its two 16-bit halves [hi, lo], so  *)
(* that all 32 bits are represented.                                       *)
(***************************************************************************)
U32(hi, lo) == [hi |-> hi, lo |-> lo]
Xor32(a, b) == U32(BitXor(a.hi, b.hi), BitXor(a.lo, b.lo))
Or32(a, b)  == U32(BitOr(a.hi, b.hi), BitOr(a.lo, b.lo))
\* a >> n for 0 <= n <= 16
Shr32(a, n) == U32(a.hi \div Pow2(n), (a.lo \div Pow2(n)) + (a.hi % Pow2(n)) * Pow2(16 - n))
\* u32::from_le_bytes / u32::from(u16::from_le_bytes) / u32::from(u8)
U32FromLE(bs) == U32(FromLE(Drop(bs, 2)), FromLE(Take(bs, 2)))

\* while let [b1, b2, b3, b4, tail @ ..] = slice { hash ^= le32; slice = tail }
RECURSIVE hash_words(_, _)
hash_words(hash, slice) ==
    IF Len(slice) >= 4
    THEN hash_words(Xor32(hash, U32FromLE(Take(slice, 4))), Drop(slice, 4))
    ELSE [hash |-> hash, slice |-> slice]

\* the fold of hash_v1: words, then a half-word, then a byte
hash_fold(bytes) ==
    LET w == hash_words(U32(0, 0), bytes)
        \* if let [b1, b2, tail @ ..] = slice
        h == IF Len(w.slice) >= 2
             THEN [hash |-> Xor32(w.hash, U32FromLE(Take(w.slice, 2))), slice |-> Drop(w.slice, 2)]
             ELSE w
    IN  \* if let [b] = slice
        IF Len(h.slice) = 1 THEN Xor32(h.hash, U32FromLE(h.slice)) ELSE h.hash

hash_v1_shift_12(bytes) ==
    LET o == Or32(hash_fold(bytes), U32(8224, 8224))
        x == Xor32(o, Shr32(o, 12))
    IN  Xor32(x, Shr32(x, 16))

hash_v1_without_or(bytes) ==
    LET o == hash_fold(bytes)
        x == Xor32(o, Shr32(o, 11))
    IN  Xor32(x, Shr32(x, 16))

hash_v1(bytes) ==
    LET \* hash |= 0x20202020
        o == Or32(hash_fold(bytes), U32(8224, 8224))
        \* hash ^= hash >> 11
        x == Xor32(o, Shr32(o, 11))
    IN  \* hash ^ (hash >> 16)
        Xor32(x, Shr32(x, 16))

MaxHashLen == 8
HashAlphabet == {65, 97, 255}

IdleHash == hashArg = <<>> /\ hashRes = <<>>
IdleCmp  == cmpArgs = <<>> /\ cmpRes = <<>>
IdleSym  == symbols = <<>> /\ symbolMap = <<>>
IdleInt  == intVal = <<>> /\ intBytes = <<>> /\ intDec = <<>>
IdleRec  == record = <<>> /\ recBytes = <<>> /\ recDec = <<>>
IdleMsf  == /\ sink = <<>> /\ allocator = <<>> /\ builtin = <<>> /\ written = <<>>
            /\ superblock = <<>> /\ pdbFile = <<>> /\ readback = <<>>
IdleType == typeBuilder = <<>> /\ typeAdded = <<>> /\ typeLayout = <<>> /\ typeStream = <<>>
IdleDir  == dirEntries = <<>>
IdleWriter == writer = <<>> /\ finished = <<>>
IdleStr  == /\ bucketArg = <<>> /\ bucketRes = <<>>
            /\ stringsBuilder = <<>> /\ stringsAdded = <<>> /\ strings = <<>>
IdlePub  == pubBuilder = <<>> /\ publics = <<>> /\ pubWritten = <<>>
IdleSeek == msfStream = <<>>
IdleSyms == symBuilder = <<>> /\ symAdded = <<>> /\ symStream = <<>>
IdlePdb  == pdbBuilder = <<>> /\ pdbRead = <<>>
IdleVer  == headerArg = <<>> /\ headerRes = <<>>
IdleLast == IdleSeek /\ IdleSyms /\ IdlePdb /\ IdleVer
IdleLate == IdleStr /\ IdlePub /\ IdleLast
IdleEarly == /\ IdleHash /\ IdleCmp /\ IdleSym /\ IdleInt /\ IdleRec /\ IdleWriter
             /\ IdleType /\ IdleDir /\ IdleStr /\ IdlePub
IdleExt  == IdleWriter /\ IdleType /\ IdleDir /\ IdleLate

InitHash ==
    /\ pc = "hash_v1"
    /\ hashArg \in SeqsUpTo(HashAlphabet, MaxHashLen)
    /\ hashRes = <<>>
    /\ IdleCmp /\ IdleSym /\ IdleInt /\ IdleRec /\ IdleMsf /\ IdleExt

HashV1 ==
    /\ pc = "hash_v1"
    /\ hashRes' = hash_v1(hashArg)
    /\ pc' = "hashed"
    /\ UNCHANGED <<hashArg, cmpVars, symVars, intVars, recVars, msfVars, extVars>>

NextHash == HashV1

SpecHash == InitHash /\ [][NextHash]_vars

(***************************************************************************)
(* The hash as section 4.4 words it, bit by bit: bit k of the fold is the  *)
(* parity of the number of chunks (4-byte words, then a trailing half-word,*)
(* then a trailing byte) that have bit k set.                              *)
(***************************************************************************)
Bit(v, k) == (v \div Pow2(k)) % 2

\* the chunks folded, each zero-extended to four bytes
RefChunks(bytes) ==
    LET n  == Len(bytes)
        nw == n \div 4
        r  == n % 4
    IN  [i \in 1..nw |-> Slice(bytes, 4 * i - 3, 4 * i)]
        \o (IF r >= 2 THEN <<Slice(bytes, 4 * nw + 1, 4 * nw + 2) \o <<0, 0>> >> ELSE <<>>)
        \o (IF r % 2 = 1 THEN << <<bytes[n], 0, 0, 0>> >> ELSE <<>>)

ChunkBit(chunk, k) == Bit(chunk[(k \div 8) + 1], k % 8)

RECURSIVE FromBits(_, _, _)
FromBits(f, k, to) == IF k > to THEN 0 ELSE f[k] + 2 * FromBits(f, k + 1, to)

RefHash(bytes) ==
    LET chunks == RefChunks(bytes)
        fold == [k \in 0..31 |->
                    Cardinality({i \in DOMAIN chunks : ChunkBit(chunks[i], k) = 1}) % 2]
        ored == [k \in 0..31 |-> IF k \in {5, 13, 21, 29} THEN 1 ELSE fold[k]]
        s11  == [k \in 0..31 |-> (ored[k] + (IF k + 11 <= 31 THEN ored[k + 11] ELSE 0)) % 2]
        s16  == [k \in 0..31 |-> (s11[k] + (IF k + 16 <= 31 THEN s11[k + 16] ELSE 0)) % 2]
    IN  U32(FromBits(s16, 16, 31), FromBits(s16, 0, 15))

\* C5: hash_v1 returns, for every byte string, the value of the reference
\* computation: XOR-fold of the 4-byte little-endian words, then a trailing
\* half-word, then a trailing byte, OR 0x20202020, h ^= h >> 11, h ^ (h >> 16),
\* in 32 bits.
C5_HashAgreesWithReference ==
    pc = "hashed" => /\ hashRes = RefHash(hashArg)
                     /\ hashRes.hi \in 0..65535
                     /\ hashRes.lo \in 0..65535

\* a string with a word, a half-word and a trailing byte has been hashed
C5_Witness ==
    pc = "hashed" /\ Len(hashArg) = 7 /\ hashArg[7] = 255 /\ hashArg[4] = 255

\* C6 as stated: hash_v1 of the empty byte string is 0.
C6_EmptyHashIsZero ==
    (pc = "hashed" /\ hashArg = <<>>) => hashRes = U32(0, 0)

\* C6 as amended: hash_v1 of the empty byte string is 0x20240400 (539231232):
\* the accumulator 0 becomes 0x20202020 by the OR, and the two shifts fold it.
C6_EmptyHashValue ==
    (pc = "hashed" /\ hashArg = <<>>) => hashRes = U32(8228, 1024)

C6_Witness == pc = "hashed" /\ hashArg = <<>>

(***************************************************************************)
(* utils.rs: CaseInsensitiveStr / CaseInsensitiveChar.  A name is the      *)
(* sequence of its chars (code points); an Ordering is -1 (Less),          *)
(* 0 (Equal) or 1 (Greater).                                               *)
(***************************************************************************)
to_ascii_lowercase(c) == IF c \in 65..90 THEN c + 32 ELSE c
eq_ignore_ascii_case(a, b) == to_ascii_lowercase(a) = to_ascii_lowercase(b)

\* <CaseInsensitiveChar as Ord>::cmp
CaseInsensitiveChar_cmp(a, b) ==
    IF eq_ignore_ascii_case(a, b) THEN 0
    ELSE IF a < b THEN -1 ELSE 1

\* <CaseInsensitiveStr as Ord>::cmp: Iterator::cmp over the mapped chars
RECURSIVE CaseInsensitiveStr_cmp(_, _)
CaseInsensitiveStr_cmp(a, b) ==
    IF a = <<>> THEN (IF b = <<>> THEN 0 ELSE -1)
    ELSE IF b = <<>> THEN 1
    ELSE LET c == CaseInsensitiveChar_cmp(a[1], b[1])
         IN  IF c # 0 THEN c ELSE CaseInsensitiveStr_cmp(Tail(a), Tail(b))

MaxNameLen == 2
NameAlphabet == {65, 66, 97, 233}
Names == SeqsUpTo(NameAlphabet, MaxNameLen)

InitCmp ==
    /\ pc = "cmp"
    /\ cmpArgs \in Names \X Names \X Names
    /\ cmpRes = <<>>
    /\ IdleHash /\ IdleSym /\ IdleInt /\ IdleRec /\ IdleMsf /\ IdleExt

Compare ==
    /\ pc = "cmp"
    /\ cmpRes' = [ab |-> CaseInsensitiveStr_cmp(cmpArgs[1], cmpArgs[2]),
                  bc |-> CaseInsensitiveStr_cmp(cmpArgs[2], cmpArgs[3]),
                  ac |-> CaseInsensitiveStr_cmp(cmpArgs[1], cmpArgs[3])]
    /\ pc' = "compared"
    /\ UNCHANGED <<cmpArgs, hashVars, symVars, intVars, recVars, msfVars, extVars>>

NextCmp == Compare

SpecCmp == InitCmp /\ [][NextCmp]_vars

\* ASCII case folding of a name, and the plain lexicographic comparison
Fold(a) == [i \in DOMAIN a |-> to_ascii_lowercase(a[i])]

RECURSIVE LexCmp(_, _)
LexCmp(a, b) ==
    IF a = <<>> THEN (IF b = <<>> THEN 0 ELSE -1)
    ELSE IF b = <<>> THEN 1
    ELSE IF a[1] < b[1] THEN -1
    ELSE IF a[1] > b[1] THEN 1
    ELSE LexCmp(Tail(a), Tail(b))

\* C9: CaseInsensitiveStr compares two names as the lexicographic comparison
\* of the folded names; the relation is transitive, and names equal under
\* folding compare the same way against every third name.
C9_CaseInsensitiveOrder ==
    pc = "compared" =>
        /\ cmpRes.ab = LexCmp(Fold(cmpArgs[1]), Fold(cmpArgs[2]))
        /\ (cmpRes.ab <= 0 /\ cmpRes.bc <= 0) => cmpRes.ac <= 0
        /\ (Fold(cmpArgs[1]) = Fold(cmpArgs[2])) => cmpRes.ac = cmpRes.bc

\* C9, the transitivity part alone
C9_Transitive ==
    pc = "compared" => ((cmpRes.ab <= 0 /\ cmpRes.bc <= 0) => cmpRes.ac <= 0)

\* ---------------------------------------------------------------------
\* Numeric leaves (Integer)
\* ---------------------------------------------------------------------

LF_NUMERIC == 32768
LF_CHAR == 32768
LF_SHORT == 32769
LF_USHORT == 32770
LF_LONG == 32771
LF_ULONG == 32772
LF_QUADWORD == 32777
LF_UQUADWORD == 32778

\* An Integer is its variant and its value. The value is kept as the 16-bit
\* limbs of its two's complement form, least significant limb first (one
\* limb below 256 for U8), so that 32- and 64-bit values stay representable.
Integer(variant, limbs) == [variant |-> variant, limbs |-> limbs]

\* width in bytes of the payload type of a variant
IntWidth(variant) ==
    CASE variant = "U8"  -> 1
      [] variant \in {"I16", "U16"} -> 2
      [] variant \in {"I32", "U32"} -> 4
      [] variant \in {"I64", "U64"} -> 8

\* to_le_bytes of a payload
limbs_to_le(variant, limbs) ==
    IF variant = "U8" THEN LE(limbs[1], 1)
    ELSE [i \in 1..(2 * Len(limbs)) |-> LE(limbs[(i + 1) \div 2], 2)[2 - (i % 2)]]

\* from_le_bytes of a payload
limbs_from_le(variant, bytes) ==
    IF variant = "U8" THEN <<bytes[1]>>
    ELSE [i \in 1..(Len(bytes) \div 2) |-> FromLE(Slice(bytes, 2 * i - 1, 2 * i))]

\* <Integer as Encode>::encode
Integer_encode(v) ==
    CASE v.variant = "I16" -> LE(LF_SHORT, 2) \o limbs_to_le("I16", v.limbs)
      [] v.variant = "I32" -> LE(LF_LONG, 2) \o limbs_to_le("I32", v.limbs)
      [] v.variant = "I64" -> LE(LF_QUADWORD, 2) \o limbs_to_le("I64", v.limbs)
      [] v.variant = "U32" -> LE(LF_ULONG, 2) \o limbs_to_le("U32", v.limbs)
      [] v.variant = "U64" -> LE(LF_UQUADWORD, 2) \o limbs_to_le("U64", v.limbs)
      [] v.variant = "U8"  -> LE(v.limbs[1], 2)
      [] v.variant = "U16" -> limbs_to_le("U16", v.limbs)

\* <Integer as EncodedSize>::encoded_size
Integer_encoded_size(v) ==
    CASE v.variant = "I16" -> 4
      [] v.variant = "I32" -> 6
      [] v.variant = "I64" -> 10
      [] v.variant = "U8"  -> 2
      [] v.variant = "U16" -> 2
      [] v.variant = "U32" -> 6
      [] v.variant = "U64" -> 10

\* results of a decode: a value with the bytes consumed, a declio error, or
\* a panic
Ok(value, consumed) == [tag |-> "ok", value |-> value, consumed |-> consumed]
Err(what) == [tag |-> "err", what |-> what]
Panic(what) == [tag |-> "panic", what |-> what]

\* decode of the payload of a variant behind the two prefix bytes
decode_payload(variant, bytes) ==
    LET w == IntWidth(variant)
    IN  IF Len(bytes) < 2 + w THEN Err("UnexpectedEof")
        ELSE Ok(Integer(variant, limbs_from_le(variant, Slice(bytes, 3, 2 + w))),
                2 + w)

\* <Integer as Decode>::decode on a reader holding bytes
Integer_decode(bytes) ==
    IF Len(bytes) < 2 THEN Err("UnexpectedEof")
    ELSE LET val == FromLE(Take(bytes, 2))
         IN  IF val < LF_NUMERIC THEN Ok(Integer("U16", <<val>>), 2)
             ELSE IF val = LF_CHAR THEN decode_payload("U8", bytes)
             ELSE IF val = LF_SHORT THEN decode_payload("I16", bytes)
             ELSE IF val = LF_USHORT THEN decode_payload("U16", bytes)
             ELSE IF val = LF_LONG THEN decode_payload("I32", bytes)
             ELSE IF val = LF_ULONG THEN decode_payload("U32", bytes)
             ELSE IF val = LF_QUADWORD THEN decode_payload("I64", bytes)
             ELSE IF val = LF_UQUADWORD THEN decode_payload("U64", bytes)
             ELSE Panic("todo")

\* ---------------------------------------------------------------------
\* CodeView symbol records and their framing (PrefixedRecord)
\* ---------------------------------------------------------------------

RECORD_ALIGNMENT == 4
S_END == 6
S_CONSTANT == 4359
S_UNAMESPACE == 4388
S_INLINESITE == 4429
S_PUB32 == 4366
S_CALLEES == 4442
LF_PAD0 == 240
LF_PAD15 == 255

\* Option<T>: None is the empty tuple, Some(v) the one-element tuple
None == <<>>
Some(v) == <<v>>

\* the SymbolRecord variants of the model; TypeIndex, IdIndex and
\* SymbolOffset are their u32
ScopeEnd == [kind |-> "ScopeEnd"]
UsingNamespace(name) == [kind |-> "UsingNamespace", name |-> name]
Constant(constant_type, value, name) ==
    [kind |-> "Constant", constant_type |-> constant_type, value |-> value,
     name |-> name]
InlineSite(parent, end, inlinee) ==
    [kind |-> "InlineSite", parent |-> parent, end |-> end, inlinee |-> inlinee]
Caller(types) == [kind |-> "Caller", types |-> types]

\* SymbolRecord::name
SymbolRecord_name(sym) ==
    IF sym.kind \in {"UsingNamespace", "Constant", "Public32"} THEN Some(sym.name)
    ELSE None

\* <StrBuf as EncodedSize>, <StrBuf as Encode>
StrBuf_encoded_size(str) == Len(str) + 1
StrBuf_encode(str) == str \o <<0>>

\* String::from_utf8 accepts exactly the well-formed UTF-8 byte strings
RECURSIVE from_utf8_ok(_)
from_utf8_ok(bs) ==
    IF bs = <<>> THEN TRUE
    ELSE LET b == bs[1]
             n == IF b < 128 THEN 1
                  ELSE IF b \in 194..223 THEN 2
                  ELSE IF b \in 224..239 THEN 3
                  ELSE IF b \in 240..244 THEN 4 ELSE 0
             lo2 == IF b = 224 THEN 160 ELSE IF b = 240 THEN 144 ELSE 128
             hi2 == IF b = 237 THEN 159 ELSE IF b = 244 THEN 143 ELSE 191
         IN  /\ n # 0
             /\ Len(bs) >= n
             /\ n >= 2 => bs[2] \in lo2..hi2
             /\ \A k \in 3..n : bs[k] \in 128..191
             /\ from_utf8_ok(Drop(bs, n))

\* <StrBuf as Decode>::decode: bytes up to the first NUL
StrBuf_decode(bs) ==
    LET nul == {k \in DOMAIN bs : bs[k] = 0}
    IN  IF nul = {} THEN Err("UnexpectedEof")
        ELSE LET k == CHOOSE x \in nul : \A y \in nul : x <= y
             IN  IF from_utf8_ok(Take(bs, k - 1)) THEN Ok(Take(bs, k - 1), k)
                 ELSE Err("FromUtf8Error")

\* u16 / u32 decode with constants::ENDIANESS
u16_decode(bs) ==
    IF Len(bs) < 2 THEN Err("UnexpectedEof") ELSE Ok(FromLE(Take(bs, 2)), 2)
u32_decode(bs) ==
    IF Len(bs) < 4 THEN Err("UnexpectedEof") ELSE Ok(FromLE(Take(bs, 4)), 4)

\* TryFrom<u32>: record_index! types reject zero, SymbolOffset is From<u32>
TypeIndex_try_from(value) == IF value = 0 THEN Err("IndexIsZero") ELSE Ok(value, 0)
SymbolOffset_try_from(value) == Ok(value, 0)

\* record_index! Decode
TypeIndex_decode(bs) ==
    LET raw == u32_decode(bs)
    IN  IF raw.tag # "ok" THEN raw
        ELSE IF TypeIndex_try_from(raw.value).tag # "ok" THEN Err("Type index was zero")
        ELSE raw

\* codecs::optional_index for Option<SymbolOffset>
optional_index_encode(val) == LE(IF val = None THEN 0 ELSE val[1], 4)
optional_index_decode(bs) ==
    LET raw == u32_decode(bs)
    IN  IF raw.tag # "ok" THEN raw
        ELSE IF SymbolOffset_try_from(raw.value).tag # "ok" THEN Ok(None, 4)
        ELSE Ok(Some(SymbolOffset_try_from(raw.value).value), 4)

\* codecs::padded_rem_list over Vec<TypeIndex>
RECURSIVE padded_rem_list_encode(_)
padded_rem_list_encode(elems) ==
    IF elems = <<>> THEN <<>>
    ELSE LET size     == 4
             padding  == RECORD_ALIGNMENT - (size % RECORD_ALIGNMENT)
             pad_byte == BitOr(padding % 256, 15)
         IN  LE(elems[1], 4)
                 \o (IF padding # 0 THEN <<pad_byte>> \o Zeros(padding - 1) ELSE <<>>)
                 \o padded_rem_list_encode(Tail(elems))

RECURSIVE padded_rem_list_encoded_size(_)
padded_rem_list_encoded_size(elems) ==
    IF elems = <<>> THEN 0
    ELSE align_to(padded_rem_list_encoded_size(SubSeq(elems, 1, Len(elems) - 1)) + 4,
                  RECORD_ALIGNMENT)

RECURSIVE padded_rem_list_decode(_)
padded_rem_list_decode(slice) ==
    IF slice = <<>> THEN Ok(<<>>, 0)
    ELSE LET el == TypeIndex_decode(slice)
         IN  IF el.tag # "ok" THEN el
             ELSE LET read    == el.consumed
                      padding == IF read % RECORD_ALIGNMENT # 0
                                 THEN RECORD_ALIGNMENT - (read % RECORD_ALIGNMENT)
                                 ELSE 0
                  IN  IF read + padding > Len(slice) THEN Panic("slice index")
                      ELSE LET more == padded_rem_list_decode(Drop(slice, read + padding))
                           IN  IF more.tag # "ok" THEN more
                               ELSE Ok(<<el.value>> \o more.value,
                                       read + padding + more.consumed)

\* derived EncodedSize of SymbolRecord: the u16 id, then the fields
SymbolRecord_encoded_size(sym) ==
    2 + CASE sym.kind = "ScopeEnd" -> 0
          [] sym.kind = "UsingNamespace" -> StrBuf_encoded_size(sym.name)
          [] sym.kind = "Constant" ->
                4 + Integer_encoded_size(sym.value) + StrBuf_encoded_size(sym.name)
          [] sym.kind = "InlineSite" -> 4 + 4 + 4
          [] sym.kind = "Caller" -> padded_rem_list_encoded_size(sym.types)
          [] sym.kind = "Public32" -> 4 + (4 + 2) + StrBuf_encoded_size(sym.name)

\* derived Encode of SymbolRecord
SymbolRecord_encode(sym) ==
    CASE sym.kind = "ScopeEnd" -> LE(S_END, 2)
      [] sym.kind = "UsingNamespace" -> LE(S_UNAMESPACE, 2) \o StrBuf_encode(sym.name)
      [] sym.kind = "Constant" ->
            LE(S_CONSTANT, 2) \o LE(sym.constant_type, 4)
                \o Integer_encode(sym.value) \o StrBuf_encode(sym.name)
      [] sym.kind = "InlineSite" ->
            LE(S_INLINESITE, 2) \o optional_index_encode(sym.parent)
                \o LE(sym.end, 4) \o LE(sym.inlinee, 4)
      [] sym.kind = "Caller" -> LE(S_CALLEES, 2) \o padded_rem_list_encode(sym.types)
      [] sym.kind = "Public32" ->
            LE(S_PUB32, 2) \o LE(sym.properties, 4) \o LE(sym.offset.offset, 4)
                \o LE(sym.offset.segment, 2) \o StrBuf_encode(sym.name)

\* derived Decode of SymbolRecord on the window of a record: the u16 id
\* selects the variant, the fields follow in declaration order
SymbolRecord_decode(bs) ==
    LET id == u16_decode(bs)
        body == Drop(bs, 2)
    IN  IF id.tag # "ok" THEN id
        ELSE IF id.value = S_END THEN Ok(ScopeEnd, 2)
        ELSE IF id.value = S_UNAMESPACE THEN
            LET name == StrBuf_decode(body)
            IN  IF name.tag # "ok" THEN name
                ELSE Ok(UsingNamespace(name.value), 2 + name.consumed)
        ELSE IF id.value = S_CONSTANT THEN
            LET ty == TypeIndex_decode(body)
            IN  IF ty.tag # "ok" THEN ty
                ELSE LET val == Integer_decode(Drop(body, 4))
                     IN  IF val.tag # "ok" THEN val
                         ELSE LET name == StrBuf_decode(Drop(body, 4 + val.consumed))
                              IN  IF name.tag # "ok" THEN name
                                  ELSE Ok(Constant(ty.value, val.value, name.value),
                                          2 + 4 + val.consumed + name.consumed)
        ELSE IF id.value = S_INLINESITE THEN
            LET parent  == optional_index_decode(body)
                end     == u32_decode(Drop(body, 4))
                inlinee == TypeIndex_decode(Drop(body, 8))
            IN  IF parent.tag # "ok" THEN parent
                ELSE IF end.tag # "ok" THEN end
                ELSE IF inlinee.tag # "ok" THEN inlinee
                ELSE Ok(InlineSite(parent.value, end.value, inlinee.value), 14)
        ELSE IF id.value = S_CALLEES THEN
            LET types == padded_rem_list_decode(body)
            IN  IF types.tag # "ok" THEN types
                ELSE Ok(Caller(types.value), 2 + types.consumed)
        ELSE Err("unknown id")

\* PrefixedRecord::encode with every padding byte zero, the first included
PrefixedRecord_encode_zero_padding(rec) ==
    LET size      == SymbolRecord_encoded_size(rec)
        full_size == align_to(size + 2, RECORD_ALIGNMENT) - 2
    IN  LE(full_size % 65536, 2) \o SymbolRecord_encode(rec) \o Zeros(full_size - size)

\* <PrefixedRecord as Encode>::encode; the cast to u16 keeps the low 16 bits
PrefixedRecord_encode(rec) ==
    LET size      == SymbolRecord_encoded_size(rec)
        full_size == align_to(size + 2, RECORD_ALIGNMENT) - 2
        padding   == full_size - size
    IN  LE(full_size % 65536, 2)
            \o SymbolRecord_encode(rec)
            \o (IF padding # 0
                THEN <<BitOr(padding % 256, 240)>> \o Zeros(padding - 1)
                ELSE <<>>)

\* the padding loop of PrefixedRecord::decode over what is left of the
\* window: limit is what the Take still allows, slice what the reader holds
RECURSIVE skip_padding(_, _)
skip_padding(slice, limit) ==
    IF limit = 0 THEN Ok(<<>>, 0)
    ELSE IF slice = <<>> THEN Err("UnexpectedEof")
    ELSE LET byte == slice[1]
         IN  IF byte \in LF_PAD0..LF_PAD15 THEN
                 IF byte = LF_PAD0 THEN Panic("padding underflow")
                 ELSE LET padding == BitAnd(byte, 15) - 1
                      IN  IF padding > limit - 1 \/ padding > Len(slice) - 1
                          THEN Err("UnexpectedEof")
                          ELSE skip_padding(Drop(slice, 1 + padding), limit - 1 - padding)
             ELSE IF byte # 0 THEN Err("invalid pading byte")
             ELSE skip_padding(Tail(slice), limit - 1)

\* PrefixedRecord::decode on a reader holding bytes
PrefixedRecord_decode(bytes) ==
    LET len == u16_decode(bytes)
    IN  IF len.tag # "ok" THEN len
        ELSE LET slice == Take(Drop(bytes, 2), len.value)
                 res   == SymbolRecord_decode(slice)
             IN  IF res.tag # "ok" THEN res
                 ELSE LET pad == skip_padding(Drop(slice, res.consumed),
                                              len.value - res.consumed)
                      IN  IF pad.tag # "ok" THEN pad
                          ELSE Ok(res.value, 2 + len.value)

\* ---------------------------------------------------------------------
\* Symbol map (GSI hash) built from the symbols of a SymbolsBuilder
\* ---------------------------------------------------------------------

IPHR_HASH == 4096
BITMAP_SIZE == (IPHR_HASH + 32) \div 32

\* keys of a BTreeMap in iteration (ascending) order
RECURSIVE keys(_)
keys(S) ==
    IF S = {} THEN <<>>
    ELSE LET m == CHOOSE x \in S : \A y \in S : x <= y
         IN  <<m>> \o keys(S \ {m})

\* BTreeMap::insert
insert(mapping, key, val) ==
    [k \in (DOMAIN mapping) \cup {key} |-> IF k = key THEN val ELSE mapping[k]]

\* SymbolsBuilder::add
SymbolsBuilder_add(builder, symbol) ==
    LET size == 2 + SymbolRecord_encoded_size(symbol)
    IN  [globals |-> insert(builder.globals, builder.offset, symbol),
         offset  |-> builder.offset + align_to(size, RECORD_ALIGNMENT)]

\* hash % IPHR_HASH: 65536 is a multiple of IPHR_HASH, so only the low half
\* of the hash contributes
bucket_index(sym) ==
    LET name == SymbolRecord_name(sym)
    IN  hash_v1(IF name = None THEN <<>> ELSE name[1]).lo % IPHR_HASH

\* IndexRecord::new
IndexRecord(offset) == [offset |-> offset, ref_count |-> 1]

\* Ord for Option<CaseInsensitiveStr>: None sorts before every Some
Option_cmp(a, b) ==
    IF a = None THEN (IF b = None THEN 0 ELSE -1)
    ELSE IF b = None THEN 1
    ELSE CaseInsensitiveStr_cmp(a[1], b[1])

\* the closure handed to sort_by: the names are looked up under the offset
\* stored in the record
record_cmp(mapping, lhs, rhs) ==
    LET get(off) == IF off \in DOMAIN mapping
                    THEN SymbolRecord_name(mapping[off]) ELSE None
        c == Option_cmp(get(lhs.offset), get(rhs.offset))
    IN  IF c # 0 THEN c
        ELSE IF lhs.offset < rhs.offset THEN -1
        ELSE IF lhs.offset > rhs.offset THEN 1 ELSE 0

\* slice::sort_by, a stable sort: each element goes behind the last element
\* that does not compare greater
RECURSIVE sort_by(_, _)
sort_by(recs, mapping) ==
    IF Len(recs) <= 1 THEN recs
    ELSE LET n    == Len(recs)
             init == sort_by(SubSeq(recs, 1, n - 1), mapping)
             x    == recs[n]
             le   == {i \in 1..(n - 1) : record_cmp(mapping, init[i], x) <= 0}
             k    == IF le = {} THEN 0 ELSE CHOOSE i \in le : \A j \in le : j <= i
         IN  SubSeq(init, 1, k) \o <<x>> \o SubSeq(init, k + 1, n - 1)

\* hash_records[start..end].sort_by(..)
sort_range(recs, start, end, mapping) ==
    SubSeq(recs, 1, start)
        \o sort_by(SubSeq(recs, start + 1, end), mapping)
        \o SubSeq(recs, end + 1, Len(recs))

\* the counting loop and the running-sum loop of from_symbols: the loop adds
\* the sum of the earlier counts to the count of the bucket itself
bucket_starts(mapping) ==
    LET b == {<<o, bucket_index(mapping[o])>> : o \in DOMAIN mapping}
    IN  [i \in 0..(IPHR_HASH - 1) |->
            Cardinality({e \in b : e[2] = i})
          + Cardinality({e \in b : e[2] < i})]

\* tail.first().copied().unwrap_or(size)
range_end(starts, i, size) ==
    IF i + 1 \in DOMAIN starts THEN starts[i + 1] ELSE size

\* the while-let loop over the slices; only non-empty ranges change anything
RECURSIVE sort_ranges(_, _, _, _)
sort_ranges(recs, todo, starts, mapping) ==
    IF todo = {} THEN recs
    ELSE LET i == CHOOSE x \in todo : \A y \in todo : x <= y
         IN  sort_ranges(sort_range(recs, starts[i],
                                    range_end(starts, i, Len(recs)), mapping),
                         todo \ {i}, starts, mapping)

\* allocate_buckets: a word of the bitmap is the set of its set bits
allocate_buckets(starts, size) ==
    LET set == {i \in DOMAIN starts : starts[i] # range_end(starts, i, size)}
        order == keys(set)
    IN  [bitmap  |-> [n \in 0..(BITMAP_SIZE - 1) |->
                        {bit \in 0..31 : (n * 32 + bit) \in set}],
         buckets |-> [k \in DOMAIN order |-> starts[order[k]] * 12]]

\* SymbolMap::from_symbols
from_symbols(mapping) ==
    LET order  == keys(DOMAIN mapping)
        pushed == [k \in DOMAIN order |-> IndexRecord(order[k] + 1)]
        starts == bucket_starts(mapping)
        size   == Len(order)
        todo   == {i \in DOMAIN starts : starts[i] < range_end(starts, i, size)}
        alloc  == allocate_buckets(starts, size)
    IN  [hash_records |-> sort_ranges(pushed, todo, starts, mapping),
         bitmap       |-> alloc.bitmap,
         buckets      |-> alloc.buckets]

MaxSymbols == 3
SymNames == {<<65>>, <<97>>, <<66>>, <<91>>, <<123>>}
SymRecords == {UsingNamespace(n) : n \in SymNames} \cup {ScopeEnd}

\* SymbolsBuilder::default
InitSym ==
    /\ pc = "symbols"
    /\ symbols = [globals |-> <<>>, offset |-> 0]
    /\ symbolMap = <<>>
    /\ IdleHash /\ IdleCmp /\ IdleInt /\ IdleRec /\ IdleMsf /\ IdleExt

AddSymbol ==
    /\ pc = "symbols"
    /\ Cardinality(DOMAIN symbols.globals) < MaxSymbols
    /\ \E sym \in SymRecords : symbols' = SymbolsBuilder_add(symbols, sym)
    /\ UNCHANGED <<pc, symbolMap, hashVars, cmpVars, intVars, recVars, msfVars, extVars>>

\* SymbolsBuilder::commit builds the globals map only for a non-empty mapping
FromSymbols ==
    /\ pc = "symbols"
    /\ DOMAIN symbols.globals # {}
    /\ symbolMap' = from_symbols(symbols.globals)
    /\ pc' = "mapped"
    /\ UNCHANGED <<symbols, hashVars, cmpVars, intVars, recVars, msfVars, extVars>>

NextSym == AddSymbol \/ FromSymbols

SpecSymbolMap == InitSym /\ [][NextSym]_vars

\* the symbol a hash record stands for, its bucket and its name
RecordSymbol(rec) == symbols.globals[rec.offset - 1]
RecordBucket(rec) == bucket_index(RecordSymbol(rec))
RecordName(rec) ==
    LET name == SymbolRecord_name(RecordSymbol(rec))
    IN  IF name = None THEN <<>> ELSE Fold(name[1])

\* buckets that hold at least one symbol of the mapping
NonEmptyBuckets == {bucket_index(symbols.globals[o]) : o \in DOMAIN symbols.globals}

\* C7: hash_records holds one (offset + 1, ref_count = 1) record per symbol,
\* grouped by bucket in ascending bucket number, and inside a bucket ordered
\* by case-insensitive name, ties broken by ascending symbol offset.
C7_BucketInvariant ==
    pc = "mapped" =>
        LET recs == symbolMap.hash_records
            m    == symbols.globals
        IN  /\ Len(recs) = Cardinality(DOMAIN m)
            /\ \A o \in DOMAIN m :
                   \E i \in DOMAIN recs : recs[i] = [offset |-> o + 1, ref_count |-> 1]
            /\ \A i, j \in DOMAIN recs : i < j =>
                   /\ RecordBucket(recs[i]) <= RecordBucket(recs[j])
                   /\ RecordBucket(recs[i]) = RecordBucket(recs[j]) =>
                        LET c == LexCmp(RecordName(recs[i]), RecordName(recs[j]))
                        IN  c < 0 \/ (c = 0 /\ recs[i].offset < recs[j].offset)

\* C7, the part that holds: one (offset + 1, 1) record per symbol
C7_OneRecordPerSymbol ==
    pc = "mapped" =>
        LET recs == symbolMap.hash_records
            m    == symbols.globals
        IN  /\ Len(recs) = Cardinality(DOMAIN m)
            /\ \A o \in DOMAIN m :
                   \E i \in DOMAIN recs : recs[i] = [offset |-> o + 1, ref_count |-> 1]

\* bit b of the bitmap
BitmapBit(b) == (b % 32) \in symbolMap.bitmap[b \div 32]
SetBits == {b \in 0..(32 * BITMAP_SIZE - 1) : BitmapBit(b)}

\* C8: bit b < 4096 of the bitmap is set iff some symbol hashes to bucket b,
\* bit 4096 is zero, buckets has one entry per set bit in ascending order,
\* and the i-th entry divided by 12 is the number of symbols in buckets below
\* the bucket of the i-th set bit.
C8_BitmapAndBuckets ==
    pc = "mapped" =>
        LET bits == keys(SetBits)
            full == NonEmptyBuckets
        IN  /\ \A b \in 0..(IPHR_HASH - 1) : BitmapBit(b) <=> b \in full
            /\ ~BitmapBit(IPHR_HASH)
            /\ Len(symbolMap.buckets) = Len(bits)
            /\ \A i \in DOMAIN bits :
                   /\ symbolMap.buckets[i] % 12 = 0
                   /\ symbolMap.buckets[i] \div 12 =
                        Cardinality({o \in DOMAIN symbols.globals :
                            bucket_index(symbols.globals[o]) < bits[i]})

\* C8, the bitmap part alone
C8_BitmapMarksNonEmpty ==
    pc = "mapped" =>
        LET full == NonEmptyBuckets
        IN  \A b \in 0..(IPHR_HASH - 1) : BitmapBit(b) <=> b \in full

\* what the bitmap holds instead: bit b is set when bucket b + 1 is non-empty
C8_BitmapShifted ==
    pc = "mapped" => SetBits = {b - 1 : b \in NonEmptyBuckets}

\* ---------------------------------------------------------------------
\* Numeric leaves: encode then decode
\* ---------------------------------------------------------------------

\* boundary limbs, and the Integer values drawn from them
LimbValues == {0, 32767, 32768, 65535}
IntegerValues ==
         {Integer("U8", <<b>>) : b \in {0, 127, 255}}
    \cup {Integer("U16", <<l>>) : l \in LimbValues \cup {LF_USHORT, 32773}}
    \cup {Integer("I16", <<l>>) : l \in LimbValues}
    \cup {Integer(v, <<l, h>>) : v \in {"I32", "U32"}, l \in {0, 32767, 32768}, h \in {0, 65535}}
    \cup {Integer(v, <<l, 0, 0, h>>) : v \in {"I64", "U64"}, l \in {0, 32767, 32768}, h \in {0, 32768}}

\* bytes that follow the leaf in the reader
MaxTrailer == 1
Trailers == SeqsUpTo({0, 65}, MaxTrailer)

InitInteger ==
    /\ pc = "integer"
    /\ intVal \in IntegerValues
    /\ intBytes = <<>>
    /\ intDec = <<>>
    /\ IdleHash /\ IdleCmp /\ IdleSym /\ IdleRec /\ IdleMsf /\ IdleExt

EncodeInteger ==
    /\ pc = "integer"
    /\ intBytes' = Integer_encode(intVal)
    /\ pc' = "encoded"
    /\ UNCHANGED <<intVal, intDec, hashVars, cmpVars, symVars, recVars, msfVars, extVars>>

DecodeInteger ==
    /\ pc = "encoded"
    /\ \E trailer \in Trailers :
           intDec' = [trailer |-> trailer,
                      res |-> Integer_decode(intBytes \o trailer)]
    /\ pc' = "decoded"
    /\ UNCHANGED <<intVal, intBytes, hashVars, cmpVars, symVars, recVars, msfVars, extVars>>

NextInteger == EncodeInteger \/ DecodeInteger

SpecInteger == InitInteger /\ [][NextInteger]_vars

\* numeric value of an Integer: its limbs extended to 80 bits, with the sign
\* for the signed variants
Signed(v) == v.variant \in {"I16", "I32", "I64"}
Numeric(v) ==
    LET n    == Len(v.limbs)
        fill == IF Signed(v) /\ v.limbs[n] >= 32768 THEN 65535 ELSE 0
    IN  [i \in 1..5 |-> IF i <= n THEN v.limbs[i] ELSE fill]

\* an unsigned value below 0x8000
SmallUnsigned(v) ==
    /\ ~Signed(v)
    /\ v.limbs[1] < LF_NUMERIC
    /\ \A i \in 2..Len(v.limbs) : v.limbs[i] = 0

\* the explicit prefix of a variant
PrefixOf(variant) ==
    CASE variant = "U8"  -> LF_CHAR
      [] variant = "I16" -> LF_SHORT
      [] variant = "U16" -> LF_USHORT
      [] variant = "I32" -> LF_LONG
      [] variant = "U32" -> LF_ULONG
      [] variant = "I64" -> LF_QUADWORD
      [] variant = "U64" -> LF_UQUADWORD

\* C4: decode(encode(v)) yields the same numeric value and consumes exactly
\* encoded_size(v) bytes; an unsigned value below 0x8000 is emitted as a bare
\* u16, every other value as its LF_* prefix followed by the value at the
\* prefix's width.
C4_NumericLeafRoundTrip ==
    pc = "decoded" =>
        /\ intDec.res.tag = "ok"
        /\ Numeric(intDec.res.value) = Numeric(intVal)
        /\ intDec.res.consumed = Integer_encoded_size(intVal)
        /\ Len(intBytes) = Integer_encoded_size(intVal)
        /\ IF SmallUnsigned(intVal)
           THEN intBytes = LE(intVal.limbs[1], 2)
           ELSE intBytes = LE(PrefixOf(intVal.variant), 2)
                              \o limbs_to_le(intVal.variant, intVal.limbs)

\* C4, the round trip alone, without the shape of the emitted bytes
C4_RoundTripOnly ==
    pc = "decoded" =>
        /\ intDec.res.tag = "ok"
        /\ Numeric(intDec.res.value) = Numeric(intVal)
        /\ intDec.res.consumed = Integer_encoded_size(intVal)

\* C4 restricted to the values the encoder handles: every variant but U16
\* at or above 0x8000 round-trips
C4_RoundTripBelowPrefixRange ==
    (pc = "decoded" /\ ~(intVal.variant = "U16" /\ intVal.limbs[1] >= LF_NUMERIC)) =>
        /\ intDec.res.tag = "ok"
        /\ Numeric(intDec.res.value) = Numeric(intVal)
        /\ intDec.res.consumed = Integer_encoded_size(intVal)

\* ---------------------------------------------------------------------
\* Record framing: encode then decode
\* ---------------------------------------------------------------------

MaxRecNameLen == 3
MaxTypes == 2
RecNames == SeqsUpTo({65, 66}, MaxRecNameLen)
RecIntegers ==
    {Integer("U16", <<5>>), Integer("U16", <<32768>>), Integer("U8", <<255>>),
     Integer("I32", <<65535, 65535>>)}
SymbolRecords ==
         {ScopeEnd}
    \cup {UsingNamespace(n) : n \in RecNames}
    \cup {Constant(4096, v, n) : v \in RecIntegers,
              n \in {<<>>, <<65>>, <<65, 66>>, <<65, 66, 67>>, <<65, 66, 67, 68>>}}
    \cup {InlineSite(p, 8, 4096) : p \in {None, Some(0), Some(4), Some(8)}}
    \cup {Caller(t) : t \in SeqsUpTo({4096, 4097}, MaxTypes)}

InitRecord ==
    /\ pc = "record"
    /\ record \in SymbolRecords
    /\ recBytes = <<>>
    /\ recDec = <<>>
    /\ IdleHash /\ IdleCmp /\ IdleSym /\ IdleInt /\ IdleMsf /\ IdleExt

EncodeRecord ==
    /\ pc = "record"
    /\ recBytes' = PrefixedRecord_encode(record)
    /\ pc' = "framed"
    /\ UNCHANGED <<record, recDec, hashVars, cmpVars, symVars, intVars, msfVars, extVars>>

DecodeRecord ==
    /\ pc = "framed"
    /\ recDec' = PrefixedRecord_decode(recBytes)
    /\ pc' = "unframed"
    /\ UNCHANGED <<record, recBytes, hashVars, cmpVars, symVars, intVars, msfVars, extVars>>

NextRecord == EncodeRecord \/ DecodeRecord

SpecRecord == InitRecord /\ [][NextRecord]_vars

\* C2: encode emits a u16 length L with (L + 2) mod 4 = 0 and L = s + p,
\* 0 <= p <= 3, for the encoded size s of the record, then the s record
\* bytes, then exactly p padding bytes, the first 0xF0 | p and the rest zero;
\* the total emitted is a multiple of 4.
C2_FramingOnEncode ==
    pc \in {"framed", "unframed"} =>
        LET s == SymbolRecord_encoded_size(record)
            L == FromLE(Take(recBytes, 2))
            p == L - s
        IN  /\ (L + 2) % 4 = 0
            /\ p \in 0..3
            /\ Len(recBytes) = 2 + s + p
            /\ Slice(recBytes, 3, 2 + s) = SymbolRecord_encode(record)
            /\ p > 0 => recBytes[2 + s + 1] = 240 + p
            /\ \A k \in (2 + s + 2)..Len(recBytes) : recBytes[k] = 0
            /\ Len(recBytes) % 4 = 0

\* C2 for the records without a padded_rem_list field
C2_FramingWithoutRemList ==
    (pc \in {"framed", "unframed"} /\ record.kind # "Caller") =>
        LET s == SymbolRecord_encoded_size(record)
            L == FromLE(Take(recBytes, 2))
            p == L - s
        IN  /\ (L + 2) % 4 = 0
            /\ p \in 0..3
            /\ Len(recBytes) = 2 + s + p
            /\ Slice(recBytes, 3, 2 + s) = SymbolRecord_encode(record)
            /\ p > 0 => recBytes[2 + s + 1] = 240 + p
            /\ \A k \in (2 + s + 2)..Len(recBytes) : recBytes[k] = 0

\* equality of records, a numeric leaf counting by its numeric value
RecordsEqual(a, b) ==
    IF a.kind = "Constant" /\ b.kind = "Constant"
    THEN /\ a.constant_type = b.constant_type
         /\ Numeric(a.value) = Numeric(b.value)
         /\ a.name = b.name
    ELSE a = b

\* C3: decode of the bytes encode produced returns a record equal to the
\* encoded one, without error, and consumes exactly the bytes emitted, which
\* are 2 + length.
C3_FramingRoundTrip ==
    pc = "unframed" =>
        /\ recDec.tag = "ok"
        /\ RecordsEqual(recDec.value, record)
        /\ recDec.consumed = Len(recBytes)
        /\ recDec.consumed = 2 + FromLE(Take(recBytes, 2))

\* C3 for the records with neither an optional SymbolOffset, nor a
\* padded_rem_list, nor a numeric leaf
C3_RoundTripPlainRecords ==
    (pc = "unframed" /\ record.kind \in {"ScopeEnd", "UsingNamespace"}) =>
        /\ recDec.tag = "ok"
        /\ RecordsEqual(recDec.value, record)
        /\ recDec.consumed = Len(recBytes)

\* a constant whose derived encoding, the kind included, is 13 bytes
ConstantOf13Bytes ==
    record.kind = "Constant" /\ SymbolRecord_encoded_size(record) = 13

Error_kind(res) ==
    IF res.what \in {"UnsupportedFeature", "StreamNotFound", "InvalidPadding"}
    THEN res.what
    ELSE "EncodingFailed"

\* the bytes behind the body of a record window: zero, a letter, LF_PAD0,
\* LF_PAD2 and LF_PAD15
TrailerBytes == {0, 65, LF_PAD0, LF_PAD0 + 2, LF_PAD15}
MaxWindowTrailer == 3
WindowRecords == {ScopeEnd, UsingNamespace(<<65>>), InlineSite(Some(4), 8, 4096)}

\* a framed record: the length of the window, the body, the trailing bytes
Window(rec, trailer) ==
    LE(SymbolRecord_encoded_size(rec) + Len(trailer), 2)
        \o SymbolRecord_encode(rec) \o trailer

InitPadding ==
    /\ pc = "window"
    /\ record \in WindowRecords
    /\ \E trailer \in SeqsUpTo(TrailerBytes, MaxWindowTrailer) : recBytes = Window(record, trailer)
    /\ recDec = <<>>
    /\ IdleHash /\ IdleCmp /\ IdleSym /\ IdleInt /\ IdleMsf /\ IdleExt

DecodeWindow ==
    /\ pc = "window"
    /\ recDec' = PrefixedRecord_decode(recBytes)
    /\ pc' = "decoded_window"
    /\ UNCHANGED <<record, recBytes, hashVars, cmpVars, symVars, intVars, msfVars, extVars>>

NextPadding == DecodeWindow

SpecPadding == InitPadding /\ [][NextPadding]_vars

\* the trailing bytes of the window in recBytes
WindowTrailer == Drop(recBytes, 2 + SymbolRecord_encoded_size(record))
InvalidPaddingByte(b) == b # 0 /\ b \notin LF_PAD0..LF_PAD15

\* C22: when a trailing byte of the record window is neither zero nor in
\* 0xF0..=0xFF, decode returns the InvalidPadding error and no record; it
\* does not panic and returns no other kind of error.
C22_InvalidPaddingReported ==
    (/\ pc = "decoded_window"
     /\ \E k \in DOMAIN WindowTrailer : InvalidPaddingByte(WindowTrailer[k])) =>
        /\ recDec.tag = "err"
        /\ Error_kind(recDec) = "InvalidPadding"

\* the decoder reports a byte that is neither zero nor a pad byte, when
\* only zero bytes stand before it, as the declio error of that message
C22_InvalidByteBehindZeros ==
    (/\ pc = "decoded_window"
     /\ \E k \in DOMAIN WindowTrailer :
            /\ InvalidPaddingByte(WindowTrailer[k])
            /\ \A j \in 1..(k - 1) : WindowTrailer[j] = 0) =>
        /\ recDec = Err("invalid pading byte")
        /\ Error_kind(recDec) = "EncodingFailed"

\* ---------------------------------------------------------------------
\* MSF container: stream writer, commit, open, stream reader
\* ---------------------------------------------------------------------

\* The block size of the writer (the const generic BLOCK_SIZE, in the crate
\* DEFAULT_BLOCK_SIZE = 4096), scaled down. The super-block, 56 bytes in the
\* crate, does not fit a block of this size; it is kept as the record
\* superblock beside the sink, and block 0 of the sink stays zero.
BLOCK_SIZE == 16

EMPTY_BLOCK == Zeros(BLOCK_SIZE)
FULL_BLOCK == [i \in 1..BLOCK_SIZE |-> 255]

\* io::Write for the sink (a Cursor<Vec<u8>>): overwrite at pos, growing
\* the vector, zero-filling a gap left by a seek past the end
write_all(s, bytes) ==
    IF bytes = <<>> THEN s
    ELSE IF s.pos = Len(s.data) THEN [data |-> s.data \o bytes, pos |-> s.pos + Len(bytes)]
    ELSE LET end == s.pos + Len(bytes)
             len == Max(Len(s.data), end)
         IN  [data |-> [i \in 1..len |->
                          IF i > s.pos /\ i <= end THEN bytes[i - s.pos]
                          ELSE IF i <= Len(s.data) THEN s.data[i] ELSE 0],
              pos  |-> end]

\* io::Seek for the sink, SeekFrom::Start
seek(s, pos) == [s EXCEPT !.pos = pos]

\* MsfStreamLayout::new
MsfStreamLayout(blocks, byte_size) == [blocks |-> blocks, byte_size |-> byte_size]

\* MsfStreamWriter::new; a writer is its block list and position, the sink
\* is threaded beside it
MsfStreamWriter == [blocks |-> <<>>, position |-> 0]

\* advance_block taking the block index from the position in the stream
\* and not from the position of the sink
advance_block_by_stream_position(w, s) ==
    LET block_index == w.position \div BLOCK_SIZE
    IN  [w |-> [w EXCEPT !.blocks = Append(w.blocks, block_index)], s |-> s]

\* MsfStreamWriter::advance_block
advance_block(w, s) ==
    LET position    == s.pos
        block_index == position \div BLOCK_SIZE
    IN  IF block_index % BLOCK_SIZE = 1
        THEN [w |-> [w EXCEPT !.blocks = Append(w.blocks, block_index + 2)],
              s |-> write_all(write_all(s, EMPTY_BLOCK), EMPTY_BLOCK)]
        ELSE [w |-> [w EXCEPT !.blocks = Append(w.blocks, block_index)],
              s |-> s]

\* <MsfStreamWriter as io::Write>::write, called by write_all until the
\* buffer is written
RECURSIVE writer_write_all(_, _, _)
writer_write_all(w, s, buf) ==
    IF buf = <<>> THEN [w |-> w, s |-> s]
    ELSE LET index_in_block == w.position % BLOCK_SIZE
             adv == IF index_in_block = 0 THEN advance_block(w, s)
                    ELSE [w |-> w, s |-> s]
             rem == BLOCK_SIZE - (w.position % BLOCK_SIZE)
             len == Min(rem, Len(buf))
         IN  writer_write_all([adv.w EXCEPT !.position = w.position + len],
                              write_all(adv.s, Take(buf, len)),
                              Drop(buf, len))

\* MsfStreamWriter::finish
finish(w, s) ==
    LET rem == BLOCK_SIZE - (w.position % BLOCK_SIZE)
    IN  [layout |-> MsfStreamLayout(w.blocks, w.position),
         s      |-> write_all(s, Take(EMPTY_BLOCK, rem))]

\* DefaultMsfStreamWriter::new(sink), the writes of one stream, finish()
write_stream(s, content) ==
    LET r == writer_write_all(MsfStreamWriter, s, content)
    IN  finish(r.w, r.s)

\* StreamAllocator: streams[k] is the layout of stream index k - 1
BUILTIN_STREAM_COUNT == 5
StreamAllocator_default ==
    [k \in 1..BUILTIN_STREAM_COUNT |-> MsfStreamLayout(<<>>, 0)]
allocate(streams, layout) == Append(streams, layout)
insert_builtin(streams, stream, layout) == [streams EXCEPT ![stream + 1] = layout]
RECURSIVE block_count(_)
block_count(streams) ==
    IF streams = <<>> THEN 0
    ELSE Len(streams[1].blocks) + block_count(Tail(streams))

\* BuiltinStream
BuiltinStream_Pdb == 1
BuiltinStream_Tpi == 2
BuiltinStream_Dbi == 3
BuiltinStream_Ipi == 4

\* Vec<u32>::encode / Vec<BlockIndex>::encode: the elements, little-endian
RECURSIVE encode_u32s(_)
encode_u32s(vals) ==
    IF vals = <<>> THEN <<>> ELSE LE(vals[1], 4) \o encode_u32s(Tail(vals))

RECURSIVE encode_block_lists(_)
encode_block_lists(streams) ==
    IF streams = <<>> THEN <<>>
    ELSE encode_u32s(streams[1].blocks) \o encode_block_lists(Tail(streams))

\* the bytes PdbBuilder::commit writes to the directory stream
directory_bytes(streams) ==
    LE(Len(streams), 4)
        \o encode_u32s([k \in DOMAIN streams |-> streams[k].byte_size])
        \o encode_block_lists(streams)

\* FreeBlockMap::layout
FreeBlockMap_layout(main) ==
    LET intervals == div_ceil(main.num_blocks, 8 * main.block_size)
    IN  MsfStreamLayout(
            [k \in 1..intervals |-> main.free_block_map_block + (k - 1) * main.block_size],
            div_ceil(main.num_blocks, 8))

\* FreeBlockMap::write: the loop over the blocks of the layout, bit counting
\* the bits written so far
RECURSIVE FreeBlockMap_write_blocks(_, _, _, _)
FreeBlockMap_write_blocks(main, blocks, bit, s) ==
    IF blocks = <<>> THEN s
    ELSE LET at        == seek(s, blocks[1] * main.block_size)
             available == Min(main.num_blocks - bit, main.block_size * 8)
             whole     == write_all(at, [i \in 1..(available \div 8) |-> 255])
         IN  IF available % 8 # 0
             THEN write_all(whole, <<Pow2(available % 8) - 1>>)
             ELSE FreeBlockMap_write_blocks(main, Tail(blocks),
                                            bit + 8 * (available \div 8), whole)

FreeBlockMap_write(main, s) ==
    FreeBlockMap_write_blocks(main, FreeBlockMap_layout(main).blocks, 0, s)

\* SuperBlock::block_map_offset, SuperBlock::block_map_blocks
block_map_offset(main) == main.block_map_addr * main.block_size
block_map_blocks(main) == div_ceil(main.num_dir_bytes, main.block_size)

\* A u32 read from the file. Values of 2^31 - 1 and above are collapsed
\* into U32_HUGE; such a value is a size or a position beyond any file of
\* the model.
U32_HUGE == Pow2(30) + (Pow2(30) - 1)
u32_value(bs) == IF bs[4] >= 128 THEN U32_HUGE ELSE FromLE(bs)
U32_MAX_BYTES == <<255, 255, 255, 255>>

\* BlockIndex::to_file_pos
to_file_pos(block, block_size) ==
    IF block >= U32_HUGE \div block_size THEN U32_HUGE ELSE block * block_size

\* Decode of Len(count) u32 values from the plain reader at position raw
read_u32s(file, raw, count) ==
    IF count = 0 THEN Ok(<<>>, 0)
    ELSE IF raw >= Len(file) \/ count >= U32_HUGE \div 4
            \/ 4 * count > Len(file) - raw
    THEN Err("UnexpectedEof")
    ELSE Ok([k \in 1..count |-> u32_value(Slice(file, raw + 4 * k - 3, raw + 4 * k))],
            4 * count)

\* PdbFile::get_dir_layout
get_dir_layout(file, super_block) ==
    LET blocks == read_u32s(file, block_map_offset(super_block),
                            block_map_blocks(super_block))
    IN  IF blocks.tag # "ok" THEN blocks
        ELSE Ok(MsfStreamLayout(blocks.value, super_block.num_dir_bytes), 0)

\* <MsfStream as io::Read>::read under read_exact of n bytes. st is the
\* stream position and the position of the inner reader; the inner reader
\* is moved only when the stream position is at the start of a block.
RECURSIVE read_exact(_, _, _, _, _)
read_exact(file, layout, block_size, st, n) ==
    IF n = 0 THEN [tag |-> "ok", bytes |-> <<>>, st |-> st]
    ELSE LET cur        == st.position \div block_size
             rem_block  == block_size - (st.position % block_size)
             rem_stream == layout.byte_size - st.position
         IN  IF rem_stream = 0 THEN Err("UnexpectedEof")
             ELSE IF rem_block = block_size /\ cur >= Len(layout.blocks)
             THEN Panic("index out of bounds")
             ELSE LET raw  == IF rem_block = block_size
                              THEN to_file_pos(layout.blocks[cur + 1], block_size)
                              ELSE st.raw
                      len  == Min(Min(rem_stream, rem_block), n)
                      read == IF raw >= Len(file) THEN 0 ELSE Min(len, Len(file) - raw)
                  IN  IF read = 0 THEN Err("UnexpectedEof")
                      ELSE LET more == read_exact(file, layout, block_size,
                                           [position |-> st.position + read,
                                            raw |-> raw + read], n - read)
                           IN  IF more.tag # "ok" THEN more
                               ELSE [more EXCEPT
                                       !.bytes = Slice(file, raw + 1, raw + read) \o @]

\* the loop of PdbFile::open over stream_sizes: the block lists are decoded
\* from the plain reader, at the position the directory reader left it
RECURSIVE read_layouts(_, _, _, _)
read_layouts(file, block_size, raw, sizes) ==
    IF sizes = <<>> THEN Ok(<<>>, 0)
    ELSE IF Take(sizes, 4) = U32_MAX_BYTES
    THEN read_layouts(file, block_size, raw, Drop(sizes, 4))
    ELSE LET byte_size   == u32_value(Take(sizes, 4))
             count       == IF byte_size >= U32_HUGE - block_size THEN U32_HUGE
                            ELSE div_ceil(byte_size, block_size)
             blocks      == read_u32s(file, raw, count)
         IN  IF blocks.tag # "ok" THEN blocks
             ELSE LET more == read_layouts(file, block_size, raw + blocks.consumed,
                                           Drop(sizes, 4))
                  IN  IF more.tag # "ok" THEN more
                      ELSE Ok(<<MsfStreamLayout(blocks.value, byte_size)>> \o more.value, 0)

\* PdbFile::open
open(file, super_block) ==
    LET dir == get_dir_layout(file, super_block)
        bs  == super_block.block_size
    IN  IF dir.tag # "ok" THEN dir
        ELSE LET num == read_exact(file, dir.value, bs, [position |-> 0, raw |-> 0], 4)
             IN  IF num.tag # "ok" THEN num
                 ELSE LET num_streams == u32_value(num.bytes)
                          sizes == IF num_streams >= U32_HUGE \div 4
                                   THEN Err("UnexpectedEof")
                                   ELSE read_exact(file, dir.value, bs, num.st,
                                                   4 * num_streams)
                      IN  IF sizes.tag # "ok" THEN sizes
                          ELSE LET layouts == read_layouts(file, bs, sizes.st.raw,
                                                           sizes.bytes)
                               IN  IF layouts.tag # "ok" THEN layouts
                                   ELSE [tag |-> "ok", layouts |-> layouts.value,
                                         block_size |-> bs]

\* read_to_end on the BufReader over an MsfStream: read is called until it
\* returns 0
RECURSIVE read_to_end(_, _, _, _)
read_to_end(file, layout, block_size, st) ==
    LET cur        == st.position \div block_size
        rem_block  == block_size - (st.position % block_size)
        rem_stream == layout.byte_size - st.position
    IN  IF rem_stream = 0 THEN Ok(<<>>, 0)
        ELSE IF rem_block = block_size /\ cur >= Len(layout.blocks)
        THEN Panic("index out of bounds")
        ELSE LET raw  == IF rem_block = block_size
                         THEN to_file_pos(layout.blocks[cur + 1], block_size)
                         ELSE st.raw
                 len  == Min(rem_stream, rem_block)
                 read == IF raw >= Len(file) THEN 0 ELSE Min(len, Len(file) - raw)
             IN  IF read = 0 THEN Ok(<<>>, 0)
                 ELSE LET more == read_to_end(file, layout, block_size,
                                      [position |-> st.position + read,
                                       raw |-> raw + read])
                      IN  IF more.tag # "ok" THEN more
                          ELSE Ok(Slice(file, raw + 1, raw + read) \o more.value,
                                  read + more.consumed)

\* PdbFile::get_indexed_stream, then the stream read to its end
read_stream(file, pdb, index) ==
    IF index >= Len(pdb.layouts) THEN [tag |-> "none"]
    ELSE read_to_end(file, pdb.layouts[index + 1], pdb.block_size,
                     [position |-> 0, raw |-> 0])

\* The contents of the streams are opaque to the container: stream number
\* tag of length n holds the non-zero bytes below
Content(tag, n) == [k \in 1..n |-> 1 + ((tag * 37 + k * 11) % 250)]

MaxModules == 1
InfoSizes   == {1, BLOCK_SIZE}
ModuleSizes == {BLOCK_SIZE + 1, 3 * BLOCK_SIZE}
DbiSizes    == {1, 2 * BLOCK_SIZE + 1}
HashSizes   == {1}
TpiSizes    == {1, 4 * BLOCK_SIZE}
IpiSizes    == {1, BLOCK_SIZE + 1}

\* PdbBuilder::default and an empty sink
Init ==
    /\ pc = "commit"
    /\ sink = [data |-> <<>>, pos |-> 0]
    /\ allocator = <<>>
    /\ builtin = <<>>
    /\ written = <<>>
    /\ superblock = <<>>
    /\ pdbFile = <<>>
    /\ readback = <<>>
    /\ IdleHash /\ IdleCmp /\ IdleSym /\ IdleInt /\ IdleRec /\ IdleExt

\* PdbBuilder::commit up to and including InfoBuilder::commit
InfoCommit ==
    /\ pc = "commit"
    /\ \E n \in InfoSizes :
        LET start   == write_all(write_all(write_all(sink, EMPTY_BLOCK), FULL_BLOCK),
                                 FULL_BLOCK)
            content == Content(BuiltinStream_Pdb, n)
            r       == write_stream(start, content)
        IN  /\ sink' = r.s
            /\ builtin' = (BuiltinStream_Pdb :> r.layout)
            /\ written' = (0 :> <<>>) @@ (BuiltinStream_Pdb :> content)
    /\ allocator' = StreamAllocator_default
    /\ pc' = "dbi"
    /\ UNCHANGED <<superblock, pdbFile, readback, hashVars, cmpVars, symVars,
                   intVars, recVars, extVars>>

\* ModuleBuilder::commit, and alike the symbol and section header streams
\* of DbiBuilder::commit: a stream written and handed to allocate
ModuleCommit ==
    /\ pc = "dbi"
    /\ Len(allocator) < BUILTIN_STREAM_COUNT + MaxModules
    /\ \E n \in ModuleSizes :
        LET index   == Len(allocator)
            content == Content(index, n)
            r       == write_stream(sink, content)
        IN  /\ sink' = r.s
            /\ allocator' = allocate(allocator, r.layout)
            /\ written' = written @@ (index :> content)
    /\ UNCHANGED <<pc, builtin, superblock, pdbFile, readback, hashVars, cmpVars,
                   symVars, intVars, recVars, extVars>>

\* DbiBuilder::commit: the DBI stream itself
DbiCommit ==
    /\ pc = "dbi"
    /\ \E n \in DbiSizes :
        LET content == Content(BuiltinStream_Dbi, n)
            r       == write_stream(sink, content)
        IN  /\ sink' = r.s
            /\ builtin' = builtin @@ (BuiltinStream_Dbi :> r.layout)
            /\ written' = written @@ (BuiltinStream_Dbi :> content)
    /\ pc' = "tpi"
    /\ UNCHANGED <<allocator, superblock, pdbFile, readback, hashVars, cmpVars,
                   symVars, intVars, recVars, extVars>>

\* TypeStreamBuilder::commit: the hash stream, allocated, then the type
\* stream
TypeStreamCommit(stream, h, n) ==
    LET index   == Len(allocator)
        hash    == Content(index, h)
        rh      == write_stream(sink, hash)
        content == Content(stream, n)
        r       == write_stream(rh.s, content)
    IN  /\ sink' = r.s
        /\ allocator' = allocate(allocator, rh.layout)
        /\ builtin' = builtin @@ (stream :> r.layout)
        /\ written' = written @@ (index :> hash) @@ (stream :> content)

TpiCommit ==
    /\ pc = "tpi"
    /\ \E h \in HashSizes, n \in TpiSizes : TypeStreamCommit(BuiltinStream_Tpi, h, n)
    /\ pc' = "ipi"
    /\ UNCHANGED <<superblock, pdbFile, readback, hashVars, cmpVars, symVars,
                   intVars, recVars, extVars>>

IpiCommit ==
    /\ pc = "ipi"
    /\ \E h \in HashSizes, n \in IpiSizes : TypeStreamCommit(BuiltinStream_Ipi, h, n)
    /\ pc' = "directory"
    /\ UNCHANGED <<superblock, pdbFile, readback, hashVars, cmpVars, symVars,
                   intVars, recVars, extVars>>

\* the rest of PdbBuilder::commit: insert_builtin, the directory, the
\* address map, num_blocks, the free block map and the super-block
CommitDirectory ==
    /\ pc = "directory"
    /\ LET streams == insert_builtin(insert_builtin(insert_builtin(insert_builtin(
                          allocator,
                          BuiltinStream_Pdb, builtin[BuiltinStream_Pdb]),
                          BuiltinStream_Dbi, builtin[BuiltinStream_Dbi]),
                          BuiltinStream_Tpi, builtin[BuiltinStream_Tpi]),
                          BuiltinStream_Ipi, builtin[BuiltinStream_Ipi])
           directory == write_stream(sink, directory_bytes(streams))
           addr_map  == write_stream(directory.s, encode_u32s(directory.layout.blocks))
           all       == allocate(allocate(streams, directory.layout), addr_map.layout)
           allocated_blocks == block_count(all) + 1
           fpm_gap_size     == BLOCK_SIZE - 2
           num_blocks == allocated_blocks + (1 + allocated_blocks \div fpm_gap_size) * 2
           main == [block_size           |-> BLOCK_SIZE,
                    free_block_map_block |-> 1,
                    num_blocks           |-> num_blocks,
                    num_dir_bytes        |-> directory.layout.byte_size,
                    unknown              |-> 0,
                    block_map_addr       |-> addr_map.layout.blocks[1]]
       IN  /\ allocator' = all
           /\ superblock' = main
           /\ sink' = seek(FreeBlockMap_write(main, addr_map.s), 0)
    /\ pc' = "committed"
    /\ UNCHANGED <<builtin, written, pdbFile, readback, hashVars, cmpVars, symVars,
                   intVars, recVars, extVars>>

\* PdbFile::open on the committed file
Open ==
    /\ pc = "committed"
    /\ pdbFile' = open(sink.data, superblock)
    /\ pc' = "opened"
    /\ UNCHANGED <<sink, allocator, builtin, written, superblock, readback, hashVars,
                   cmpVars, symVars, intVars, recVars, extVars>>

\* one logical stream of the opened file, read from its start to its end
ReadStream ==
    /\ pc \in {"opened", "read"}
    /\ pdbFile.tag = "ok"
    /\ \E index \in DOMAIN written :
           readback' = [index |-> index,
                        res   |-> read_stream(sink.data, pdbFile, index)]
    /\ pc' = "read"
    /\ UNCHANGED <<sink, allocator, builtin, written, superblock, pdbFile, hashVars,
                   cmpVars, symVars, intVars, recVars, extVars>>

Next ==
    \/ InfoCommit \/ ModuleCommit \/ DbiCommit \/ TpiCommit \/ IpiCommit
    \/ CommitDirectory \/ Open \/ ReadStream

Spec == Init /\ [][Next]_vars

\* C1: after open, every directory entry has a layout, and reading its
\* logical stream to the end returns exactly the bytes written to that
\* stream, byte_size of them.
C1_StreamRoundTrip ==
    /\ pc \in {"opened", "read"} =>
          /\ pdbFile.tag = "ok"
          /\ Len(pdbFile.layouts) = Cardinality(DOMAIN written)
    /\ pc = "read" =>
          /\ readback.res = Ok(written[readback.index], Len(written[readback.index]))
          /\ pdbFile.layouts[readback.index + 1].byte_size = Len(written[readback.index])

\* the directory was written to consecutive blocks
DirectoryContiguous ==
    LET blocks == allocator[Len(allocator) - 1].blocks
    IN  \A k \in 1..(Len(blocks) - 1) : blocks[k + 1] = blocks[k] + 1

\* C1 for the files whose directory lies in consecutive blocks
C1_RoundTripContiguousDirectory ==
    /\ (pc \in {"opened", "read"} /\ DirectoryContiguous) =>
          /\ pdbFile.tag = "ok"
          /\ Len(pdbFile.layouts) = Cardinality(DOMAIN written)
    /\ (pc = "read" /\ DirectoryContiguous) =>
          /\ readback.res = Ok(written[readback.index], Len(written[readback.index]))
          /\ pdbFile.layouts[readback.index + 1].byte_size = Len(written[readback.index])

\* C10: num_blocks of the super-block is 1 + payload_blocks
\* + 2 * (1 + payload_blocks / (block_size - 2)), payload_blocks counting the
\* blocks of all stream block lists, directory and address map included.
C10_BlockCountIdentity ==
    pc \in {"committed", "opened", "read"} =>
        LET payload_blocks == block_count(allocator)
        IN  superblock.num_blocks =
                1 + payload_blocks + 2 * (1 + payload_blocks \div (BLOCK_SIZE - 2))

\* what commit computes: the quotient is taken of payload_blocks + 1
C10_BlockCountAsComputed ==
    pc \in {"committed", "opened", "read"} =>
        LET payload_blocks == block_count(allocator)
        IN  superblock.num_blocks =
                1 + payload_blocks + 2 * (1 + (payload_blocks + 1) \div (BLOCK_SIZE - 2))

\* ---------------------------------------------------------------------
\* The stream writer, one call at a time
\* ---------------------------------------------------------------------

\* <MsfStreamWriter as io::Write>::write without the test that the buffer
\* is not empty
writer_write_any_buffer(w, s, buf) ==
    LET index_in_block == w.position % BLOCK_SIZE
        adv  == IF index_in_block = 0 THEN advance_block(w, s)
                ELSE [w |-> w, s |-> s]
        rem  == BLOCK_SIZE - (w.position % BLOCK_SIZE)
        len  == Min(rem, Len(buf))
    IN  [w    |-> [adv.w EXCEPT !.position = w.position + len],
         s    |-> write_all(adv.s, Take(buf, len)),
         read |-> len]

\* <MsfStreamWriter as io::Write>::write: one call, which accepts read
\* bytes of the buffer
writer_write(w, s, buf) ==
    LET index_in_block == w.position % BLOCK_SIZE
        adv  == IF index_in_block = 0 /\ buf # <<>> THEN advance_block(w, s)
                ELSE [w |-> w, s |-> s]
        rem  == BLOCK_SIZE - (w.position % BLOCK_SIZE)
        len  == Min(rem, Len(buf))
    IN  [w    |-> [adv.w EXCEPT !.position = w.position + len],
         s    |-> write_all(adv.s, Take(buf, len)),
         read |-> len]

MaxStreams == 2
MaxSinkBlocks == 21
\* the lengths of the buffers handed to write: nothing, half a block, a
\* block, more than a block, and a single byte at the start of a block
WriteSizes(position) ==
    {0, BLOCK_SIZE \div 2, BLOCK_SIZE, BLOCK_SIZE + 1}
        \cup (IF position % BLOCK_SIZE = 0 THEN {1} ELSE {})

\* the sink as PdbBuilder::commit leaves it before the first stream: the
\* place of the super-block and the two initial FPM blocks
InitWriter ==
    /\ pc = "sink"
    /\ sink = write_all(write_all(write_all([data |-> <<>>, pos |-> 0],
                                            EMPTY_BLOCK), FULL_BLOCK), FULL_BLOCK)
    /\ allocator = <<>>
    /\ written = <<>>
    /\ writer = <<>>
    /\ finished = <<>>
    /\ builtin = <<>> /\ superblock = <<>> /\ pdbFile = <<>> /\ readback = <<>>
    /\ IdleHash /\ IdleCmp /\ IdleSym /\ IdleInt /\ IdleRec /\ IdleType /\ IdleDir
    /\ IdleLate

\* DefaultMsfStreamWriter::new(sink)
WriterNew ==
    /\ pc = "sink"
    /\ Len(allocator) < MaxStreams
    /\ writer' = MsfStreamWriter
    /\ written' = <<>>
    /\ pc' = "writing"
    /\ UNCHANGED <<sink, allocator, finished, builtin, superblock, pdbFile, readback,
                   exceptWriter>>

\* one call of write; written collects the bytes the writer accepted
WriterWrite ==
    /\ pc = "writing"
    /\ Len(sink.data) < MaxSinkBlocks * BLOCK_SIZE
    /\ \E n \in WriteSizes(writer.position) :
        LET buf == Drop(Content(Len(allocator) + 1, writer.position + n),
                        writer.position)
            r   == writer_write(writer, sink, buf)
        IN  /\ writer' = r.w
            /\ sink' = r.s
            /\ written' = written \o Take(buf, r.read)
    /\ UNCHANGED <<pc, allocator, finished, builtin, superblock, pdbFile, readback,
                   exceptWriter>>

\* finish(); the layout goes to the list of finished streams
WriterFinish ==
    /\ pc = "writing"
    /\ LET r == finish(writer, sink)
       IN  /\ allocator' = Append(allocator, r.layout)
           /\ sink' = r.s
    /\ finished' = Append(finished, written)
    /\ pc' = "sink"
    /\ UNCHANGED <<writer, written, builtin, superblock, pdbFile, readback, exceptWriter>>

NextWriter == WriterNew \/ WriterWrite \/ WriterFinish

SpecWriter == InitWriter /\ [][NextWriter]_vars

\* C11: a writer that has accepted L bytes has ceil(L / block_size) entries
\* in its block list, while writing and after finish; the layout finish
\* returns has byte_size L, a block when L > 0 and none when L = 0.
C11_StreamBlockCount ==
    LET L == Len(written)
    IN  /\ pc = "writing" => Len(writer.blocks) = div_ceil(L, BLOCK_SIZE)
        /\ (pc = "sink" /\ allocator # <<>>) =>
              LET layout == allocator[Len(allocator)]
              IN  /\ layout.byte_size = L
                  /\ Len(layout.blocks) = div_ceil(L, BLOCK_SIZE)
                  /\ L > 0 => Len(layout.blocks) >= 1
                  /\ L = 0 => layout.blocks = <<>>

\* an empty stream has been finished, and one that ends on a block boundary
\* beyond the second pair of FPM slots
C11_Witness ==
    /\ pc = "sink"
    /\ \E k \in DOMAIN allocator : allocator[k].byte_size = 0
    /\ \E k \in DOMAIN allocator :
          /\ allocator[k].byte_size > 0
          /\ allocator[k].byte_size % BLOCK_SIZE = 0
          /\ allocator[k].blocks[Len(allocator[k].blocks)] > BLOCK_SIZE + 2

\* the block lists a commit has recorded so far
RecordedLayouts ==
    {allocator[k] : k \in DOMAIN allocator} \cup {builtin[k] : k \in DOMAIN builtin}

\* C12: no block index recorded in a block list of a stream is an FPM slot:
\* none is 1 or 2 modulo block_size.
C12_NoDataInFpmSlots ==
    \A layout \in RecordedLayouts : \A k \in DOMAIN layout.blocks :
        layout.blocks[k] % BLOCK_SIZE \notin {1, 2}

\* the first slot of a pair is never recorded
C12_FirstSlotNeverUsed ==
    \A layout \in RecordedLayouts : \A k \in DOMAIN layout.blocks :
        layout.blocks[k] % BLOCK_SIZE # 1

\* the bytes block holds in the file
BlockBytes(file, block) ==
    {file[i] : i \in (block * BLOCK_SIZE + 1)..Min((block + 1) * BLOCK_SIZE, Len(file))}

\* the reserved slots the file contains
FpmSlots(file) ==
    {block \in 0..(div_ceil(Len(file), BLOCK_SIZE) - 1) : block % BLOCK_SIZE \in {1, 2}}

\* C13: after commit every FPM block the file contains, the block at every
\* index that is 1 or 2 modulo block_size, has every bit set.
C13_FpmBlocksAllOnes ==
    pc \in {"committed", "opened", "read"} =>
        \A block \in FpmSlots(sink.data) : BlockBytes(sink.data, block) = {255}

\* the second block of the first FPM pair keeps every bit set
C13_SecondInitialFpmBlockFull ==
    pc \in {"committed", "opened", "read"} => BlockBytes(sink.data, 2) = {255}

\* the number of places in the block lists of the committed streams, the
\* directory and the address map included, that hold the block
BlockOccurrences(block) ==
    Cardinality({<<k, j>> \in (DOMAIN allocator) \X (0..Len(sink.data)) :
                    /\ j \in DOMAIN allocator[k].blocks
                    /\ allocator[k].blocks[j] = block})

\* the file is num_blocks blocks long
FileSizeAgrees ==
    Len(sink.data) = superblock.num_blocks * BLOCK_SIZE

\* every block of the file is the super-block, a reserved FPM slot, or in
\* exactly one place of one block list
EveryBlockAccounted ==
    \A block \in 0..(div_ceil(Len(sink.data), BLOCK_SIZE) - 1) :
        IF block = 0 \/ block \in FpmSlots(sink.data)
        THEN BlockOccurrences(block) = 0
        ELSE BlockOccurrences(block) = 1

\* C29: after commit the length of the sink is num_blocks * block_size, and
\* every block of the file is the super-block, an FPM block at a reserved
\* slot, or a block in exactly one stream's block list; no other block is
\* written, whatever the lengths of the streams.
C29_FileSizeAndBlocks ==
    pc \in {"committed", "opened", "read"} =>
        /\ FileSizeAgrees
        /\ EveryBlockAccounted

\* no block is in two places of the block lists, and the file ends at a
\* block boundary
C29_NoBlockTwice ==
    pc \in {"committed", "opened", "read"} =>
        /\ Len(sink.data) % BLOCK_SIZE = 0
        /\ \A block \in 0..(div_ceil(Len(sink.data), BLOCK_SIZE) - 1) :
               BlockOccurrences(block) <= 1
        /\ BlockOccurrences(0) = 0

\* ---------------------------------------------------------------------
\* Type streams (TPI, IPI): TypeStreamBuilder, TypeStream, TypeHash
\* ---------------------------------------------------------------------
HASH_BUCKET_NUMBER == 262143
FIRST_NON_BUILTIN_TYPE == 4096
TypeStreamHeader_BYTE_SIZE == 56
TypeStreamVersion_V80 == 20040203
LF_MODIFIER == 4097
LF_INDEX == 5124
LF_ARRAY == 5379

\* TypeRecord, the variants modelled
Modifier(modified_type, properties) ==
    [kind |-> "Modifier", modified_type |-> modified_type, properties |-> properties]
ListContinuation(index) == [kind |-> "ListContinuation", index |-> index]
Array(element_type, index_type, dimensions) ==
    [kind |-> "Array", element_type |-> element_type, index_type |-> index_type,
     dimensions |-> dimensions]

\* codecs::padded_rem_list over Vec<Integer>
RECURSIVE padded_rem_list_encode_integers(_)
padded_rem_list_encode_integers(elems) ==
    IF elems = <<>> THEN <<>>
    ELSE LET size     == Integer_encoded_size(elems[1])
             padding  == RECORD_ALIGNMENT - (size % RECORD_ALIGNMENT)
             pad_byte == BitOr(padding % 256, 15)
         IN  Integer_encode(elems[1])
                 \o (IF padding # 0 THEN <<pad_byte>> \o Zeros(padding - 1) ELSE <<>>)
                 \o padded_rem_list_encode_integers(Tail(elems))

RECURSIVE padded_rem_list_encoded_size_integers(_)
padded_rem_list_encoded_size_integers(elems) ==
    IF elems = <<>> THEN 0
    ELSE align_to(padded_rem_list_encoded_size_integers(SubSeq(elems, 1, Len(elems) - 1))
                      + Integer_encoded_size(elems[Len(elems)]),
                  RECORD_ALIGNMENT)

RECURSIVE padded_rem_list_decode_integers(_)
padded_rem_list_decode_integers(slice) ==
    IF slice = <<>> THEN Ok(<<>>, 0)
    ELSE LET el == Integer_decode(slice)
         IN  IF el.tag # "ok" THEN el
             ELSE LET read    == el.consumed
                      padding == IF read % RECORD_ALIGNMENT # 0
                                 THEN RECORD_ALIGNMENT - (read % RECORD_ALIGNMENT)
                                 ELSE 0
                  IN  IF read + padding > Len(slice) THEN Panic("slice index")
                      ELSE LET more == padded_rem_list_decode_integers(
                                           Drop(slice, read + padding))
                           IN  IF more.tag # "ok" THEN more
                               ELSE Ok(<<el.value>> \o more.value,
                                       read + padding + more.consumed)

\* derived EncodedSize, Encode and Decode of TypeRecord
TypeRecord_encoded_size(typ) ==
    2 + CASE typ.kind = "Modifier" -> 4 + 2
          [] typ.kind = "ListContinuation" -> 4
          [] typ.kind = "Array" ->
                4 + 4 + padded_rem_list_encoded_size_integers(typ.dimensions)

TypeRecord_encode(typ) ==
    CASE typ.kind = "Modifier" ->
            LE(LF_MODIFIER, 2) \o LE(typ.modified_type, 4) \o LE(typ.properties, 2)
      [] typ.kind = "ListContinuation" -> LE(LF_INDEX, 2) \o LE(typ.index, 4)
      [] typ.kind = "Array" ->
            LE(LF_ARRAY, 2) \o LE(typ.element_type, 4) \o LE(typ.index_type, 4)
                \o padded_rem_list_encode_integers(typ.dimensions)

TypeRecord_decode(bs) ==
    LET id   == u16_decode(bs)
        body == Drop(bs, 2)
    IN  IF id.tag # "ok" THEN id
        ELSE IF id.value = LF_MODIFIER THEN
            LET ty == TypeIndex_decode(body)
            IN  IF ty.tag # "ok" THEN ty
                ELSE LET props == u16_decode(Drop(body, 4))
                     IN  IF props.tag # "ok" THEN props
                         ELSE Ok(Modifier(ty.value, props.value), 8)
        ELSE IF id.value = LF_INDEX THEN
            LET ty == TypeIndex_decode(body)
            IN  IF ty.tag # "ok" THEN ty ELSE Ok(ListContinuation(ty.value), 6)
        ELSE IF id.value = LF_ARRAY THEN
            LET el == TypeIndex_decode(body)
            IN  IF el.tag # "ok" THEN el
                ELSE LET ix == TypeIndex_decode(Drop(body, 4))
                     IN  IF ix.tag # "ok" THEN ix
                         ELSE LET dims == padded_rem_list_decode_integers(Drop(body, 8))
                              IN  IF dims.tag # "ok" THEN dims
                                  ELSE Ok(Array(el.value, ix.value, dims.value),
                                          10 + dims.consumed)
        ELSE Err("unknown id")

\* <PrefixedRecord<TypeRecord> as Encode>::encode
PrefixedRecord_encode_type(typ) ==
    LET size      == TypeRecord_encoded_size(typ)
        full_size == align_to(size + 2, RECORD_ALIGNMENT) - 2
        padding   == full_size - size
    IN  LE(full_size % 65536, 2)
            \o TypeRecord_encode(typ)
            \o (IF padding # 0
                THEN <<BitOr(padding % 256, 240)>> \o Zeros(padding - 1)
                ELSE <<>>)

\* PrefixedRecord::decode behind the record: the padding loop over the rest
\* of the window slice, res being what the decode of the record returned
skip_padding_behind(res, slice, len) ==
    IF res.tag # "ok" THEN res
    ELSE LET pad == skip_padding(Drop(slice, res.consumed), len - res.consumed)
         IN  IF pad.tag # "ok" THEN pad
             ELSE Ok(res.value, 2 + len)

\* PrefixedRecord::decode behind the length: the record and its padding
\* decoded from the Take of len bytes
decode_type_in_window(slice, len) ==
    skip_padding_behind(TypeRecord_decode(slice), slice, len)

\* PrefixedRecord::<TypeRecord>::decode
PrefixedRecord_decode_type(bytes) ==
    LET len == u16_decode(bytes)
    IN  IF len.tag # "ok" THEN len
        ELSE decode_type_in_window(Take(Drop(bytes, 2), len.value), len.value)

\* a u32 modulo HASH_BUCKET_NUMBER = 2^18 - 1: 2^16 * hi + lo, where
\* 2^16 * hi = 2^18 * (hi / 4) + 2^16 * (hi % 4) and 2^18 leaves 1
rem_hash_buckets(h) ==
    ((h.hi \div 4) + 65536 * (h.hi % 4) + h.lo) % HASH_BUCKET_NUMBER

\* Default for TypeStreamBuilder
TypeStreamBuilder_default ==
    [records |-> <<>>, hashes |-> <<>>, offset |-> 0, index |-> FIRST_NON_BUILTIN_TYPE]

\* TypeStreamBuilder::add: the builder after the call and the index returned
TypeStreamBuilder_add(b, name, typ) ==
    LET size == 2 + TypeRecord_encoded_size(typ)
    IN  [builder |-> [records |-> Append(b.records, typ),
                      hashes  |-> Append(b.hashes, rem_hash_buckets(hash_v1(name))),
                      offset  |-> b.offset + align_to(size, RECORD_ALIGNMENT),
                      index   |-> b.index + 1],
         index   |-> b.index]

\* the loop of commit over the records: type_buffer and the index_offsets
RECURSIVE type_buffer(_)
type_buffer(records) ==
    IF records = <<>> THEN <<>>
    ELSE PrefixedRecord_encode_type(records[1]) \o type_buffer(Tail(records))

index_offsets(records) ==
    [k \in DOMAIN records |->
        [index  |-> (k - 1) + FIRST_NON_BUILTIN_TYPE,
         offset |-> Len(type_buffer(SubSeq(records, 1, k - 1)))]]

RECURSIVE encode_index_offsets(_)
encode_index_offsets(offsets) ==
    IF offsets = <<>> THEN <<>>
    ELSE LE(offsets[1].index, 4) \o LE(offsets[1].offset, 4)
             \o encode_index_offsets(Tail(offsets))

\* derived Encode of hash::Table, for Table::default
Table_default_encode == LE(0, 4) \o LE(8, 4) \o LE(0, 4) \o LE(0, 4)

EmbeddedBuf(offset, length) == [offset |-> offset, length |-> length]

\* TypeHash::write: the bytes written and the TypeHashLayout
TypeHash_write(hash) ==
    LET hash_values    == encode_u32s(hash.hash_values)
        offsets        == encode_index_offsets(hash.index_offsets)
        hash_adjusters == Table_default_encode
    IN  [bytes  |-> hash_values \o offsets \o hash_adjusters,
         layout |-> [hash_values    |-> EmbeddedBuf(0, Len(hash_values)),
                     index_offsets  |-> EmbeddedBuf(Len(hash_values), Len(offsets)),
                     hash_adjusters |-> EmbeddedBuf(Len(hash_values) + Len(offsets),
                                                    Len(hash_adjusters))]]

\* TypeStreamHeader::new
TypeStreamHeader_new(last_type, type_bytes, hash_stream, hash_layout) ==
    [version               |-> TypeStreamVersion_V80,
     header_size           |-> TypeStreamHeader_BYTE_SIZE,
     type_index_begin      |-> FIRST_NON_BUILTIN_TYPE,
     type_index_end        |-> last_type,
     type_record_bytes     |-> type_bytes,
     hash_stream_index     |-> hash_stream,
     hash_aux_stream_index |-> 65535,
     hash_key_size         |-> 4,
     num_hash_buckets      |-> HASH_BUCKET_NUMBER,
     hash_layout           |-> hash_layout]

EmbeddedBuf_encode(buf) == LE(buf.offset, 4) \o LE(buf.length, 4)

\* derived Encode of TypeStreamHeader
TypeStreamHeader_encode(h) ==
    LE(h.version, 4) \o LE(h.header_size, 4) \o LE(h.type_index_begin, 4)
        \o LE(h.type_index_end, 4) \o LE(h.type_record_bytes, 4)
        \o LE(h.hash_stream_index, 2) \o LE(h.hash_aux_stream_index, 2)
        \o LE(h.hash_key_size, 4) \o LE(h.num_hash_buckets, 4)
        \o EmbeddedBuf_encode(h.hash_layout.hash_values)
        \o EmbeddedBuf_encode(h.hash_layout.index_offsets)
        \o EmbeddedBuf_encode(h.hash_layout.hash_adjusters)

EmbeddedBuf_decode(bs) == EmbeddedBuf(FromLE(Take(bs, 4)), FromLE(Slice(bs, 5, 8)))

\* derived Decode of TypeStreamHeader: the magic fields must match, the
\* version must be one of the enum, the indices must not be zero
TypeStreamHeader_decode(bs) ==
    IF Len(bs) < TypeStreamHeader_BYTE_SIZE THEN Err("UnexpectedEof")
    ELSE LET u32_at(k) == FromLE(Slice(bs, k + 1, k + 4))
             u16_at(k) == FromLE(Slice(bs, k + 1, k + 2))
         IN  IF u32_at(0) \notin {19950410, 19951122, 19961031, 19990903,
                                  TypeStreamVersion_V80}
             THEN Err("invalid version")
             ELSE IF u32_at(4) # TypeStreamHeader_BYTE_SIZE THEN Err("magic bytes")
             ELSE IF u32_at(8) = 0 \/ u32_at(12) = 0 THEN Err("Type index was zero")
             ELSE IF u32_at(24) # 4 \/ u32_at(28) # HASH_BUCKET_NUMBER
             THEN Err("magic bytes")
             ELSE Ok([version               |-> u32_at(0),
                      header_size           |-> u32_at(4),
                      type_index_begin      |-> u32_at(8),
                      type_index_end        |-> u32_at(12),
                      type_record_bytes     |-> u32_at(16),
                      hash_stream_index     |-> u16_at(20),
                      hash_aux_stream_index |-> u16_at(22),
                      hash_key_size         |-> u32_at(24),
                      num_hash_buckets      |-> u32_at(28),
                      hash_layout |->
                          [hash_values    |-> EmbeddedBuf_decode(Slice(bs, 33, 40)),
                           index_offsets  |-> EmbeddedBuf_decode(Slice(bs, 41, 48)),
                           hash_adjusters |-> EmbeddedBuf_decode(Slice(bs, 49, 56))]],
                     TypeStreamHeader_BYTE_SIZE)

\* TypeStreamBuilder::commit: the bytes of the hash stream and of the type
\* stream, given the stream index allocate returns for the hash stream
TypeStreamBuilder_commit(b, hash_stream) ==
    LET hash       == [hash_values |-> b.hashes, index_offsets |-> index_offsets(b.records)]
        last_index == FIRST_NON_BUILTIN_TYPE + Len(b.records)
        written_hash == TypeHash_write(hash)
        header     == TypeStreamHeader_new(last_index, b.offset, hash_stream,
                                           written_hash.layout)
    IN  [hash_bytes |-> written_hash.bytes,
         type_bytes |-> TypeStreamHeader_encode(header) \o type_buffer(b.records)]

\* the loop of TypeStream::read over the Take of type_record_bytes
RECURSIVE read_records(_, _)

\* the records behind the record rec
prepend_record(rec, consumed, more) ==
    IF more.tag # "ok" THEN more
    ELSE Ok(<<rec.value>> \o more.value, consumed + more.consumed)

\* one turn of the loop, rec being what PrefixedRecord::decode returned
read_records_behind(rec, window, limit) ==
    IF rec.tag # "ok" THEN rec
    ELSE prepend_record(rec, Min(rec.consumed, Len(window)),
                        read_records(Drop(window, Min(rec.consumed, Len(window))),
                                     limit - Min(rec.consumed, Len(window))))

read_records(window, limit) ==
    IF limit <= 0 THEN Ok(<<>>, 0)
    ELSE read_records_behind(PrefixedRecord_decode_type(window), window, limit)

\* TypeStream::read
TypeStream_read_records(header, records) ==
    IF records.tag # "ok" THEN records
    ELSE Ok([header |-> header.value, records |-> records.value], 0)

TypeStream_read_behind(header, input) ==
    IF header.tag # "ok" THEN header
    ELSE IF header.value.version # TypeStreamVersion_V80
    THEN Err("UnsupportedFeature")
    ELSE TypeStream_read_records(
             header,
             read_records(Take(Drop(input, header.consumed),
                               header.value.type_record_bytes),
                          header.value.type_record_bytes))

TypeStream_read(input) ==
    TypeStream_read_behind(TypeStreamHeader_decode(input), input)

\* TypeStream::record: the subtraction overflows below FIRST_NON_BUILTIN_TYPE,
\* which panics in a build with overflow checks and wraps to an index out of
\* range in a build without; the set of the possible results
TypeStream_record(ts, idx) ==
    IF idx < FIRST_NON_BUILTIN_TYPE
    THEN {Panic("attempt to subtract with overflow"), None}
    ELSE LET k == idx - FIRST_NON_BUILTIN_TYPE
         IN  {IF k < Len(ts.records) THEN Some(ts.records[k + 1]) ELSE None}

\* MsfStream::seek to a position from the start and the read of n bytes, on
\* the bytes of a stream and its block list
seek_read(stream, blocks, pos, n) ==
    IF pos \div BLOCK_SIZE >= Len(blocks) THEN Panic("index out of bounds")
    ELSE IF pos + n > Len(stream) THEN Err("UnexpectedEof")
    ELSE Ok(Slice(stream, pos + 1, pos + n), n)

RECURSIVE decode_u32s(_)
decode_u32s(bs) ==
    IF bs = <<>> THEN <<>> ELSE <<FromLE(Take(bs, 4))>> \o decode_u32s(Drop(bs, 4))

RECURSIVE decode_index_offsets(_)
decode_index_offsets(bs) ==
    IF bs = <<>> THEN Ok(<<>>, 0)
    ELSE LET index == TypeIndex_decode(bs)
             more  == decode_index_offsets(Drop(bs, 8))
         IN  IF index.tag # "ok" THEN index
             ELSE IF more.tag # "ok" THEN more
             ELSE Ok(<<[index |-> index.value, offset |-> FromLE(Slice(bs, 5, 8))]>>
                         \o more.value, 8 + more.consumed)

\* TypeHash::read; of hash_adjusters the fixed part of the Table is read
TypeHash_read(stream, blocks, layout) ==
    LET num_hash_values   == layout.hash_values.length \div 4
        hash_values       == seek_read(stream, blocks, layout.hash_values.offset,
                                       4 * num_hash_values)
        num_index_offsets == layout.index_offsets.length \div 8
        offsets           == seek_read(stream, blocks, layout.index_offsets.offset,
                                       8 * num_index_offsets)
        hash_adjusters    == seek_read(stream, blocks, layout.hash_adjusters.offset, 16)
    IN  IF hash_values.tag # "ok" THEN hash_values
        ELSE IF offsets.tag # "ok" THEN offsets
        ELSE IF decode_index_offsets(offsets.value).tag # "ok"
        THEN decode_index_offsets(offsets.value)
        ELSE IF hash_adjusters.tag # "ok" THEN hash_adjusters
        ELSE Ok([hash_values   |-> decode_u32s(hash_values.value),
                 index_offsets |-> decode_index_offsets(offsets.value).value], 0)

\* TypeHash::get_index
TypeHash_get_index(hash, name) ==
    LET h   == rem_hash_buckets(hash_v1(name))
        pos == {i \in DOMAIN hash.hash_values : hash.hash_values[i] = h}
    IN  IF pos = {} THEN None
        ELSE LET i == CHOOSE x \in pos : \A y \in pos : x <= y
             IN  Some(FIRST_NON_BUILTIN_TYPE + (i - 1))

MaxTypeRecords == 2
TypeNames == {<<65>>, <<97>>, <<66>>}
TypeRecords ==
    {Modifier(116, 1), ListContinuation(4096), Array(116, 117, <<>>),
     Array(116, 117, <<Integer("U16", <<5>>)>>),
     Array(116, 117, <<Integer("I16", <<65535>>)>>)}

\* TpiBuilder::default, and the sink and allocator as PdbBuilder::commit
\* hands them to the commit of the builder
InitTypes ==
    /\ pc = "types"
    /\ typeBuilder = TypeStreamBuilder_default
    /\ typeAdded = <<>>
    /\ typeLayout = <<>>
    /\ typeStream = <<>>
    /\ sink = write_all(write_all(write_all([data |-> <<>>, pos |-> 0],
                                            EMPTY_BLOCK), FULL_BLOCK), FULL_BLOCK)
    /\ allocator = StreamAllocator_default
    /\ written = <<>> /\ IdleWriter
    /\ builtin = <<>> /\ superblock = <<>> /\ pdbFile = <<>> /\ readback = <<>>
    /\ IdleHash /\ IdleCmp /\ IdleSym /\ IdleInt /\ IdleRec /\ IdleDir /\ IdleLate

TypeAdd ==
    /\ pc = "types"
    /\ Len(typeBuilder.records) < MaxTypeRecords
    /\ \E name \in TypeNames, typ \in TypeRecords :
        LET r == TypeStreamBuilder_add(typeBuilder, name, typ)
        IN  /\ typeBuilder' = r.builder
            /\ typeAdded' = Append(typeAdded,
                                   [name |-> name, record |-> typ, index |-> r.index])
    /\ UNCHANGED <<pc, typeLayout, typeStream, msfVars, exceptTypes>>

\* TypeStreamBuilder::commit: the hash stream is written and allocated, then
\* the type stream; its layout is returned
TypeCommit ==
    /\ pc = "types"
    /\ LET hash_stream == Len(allocator)
           streams     == TypeStreamBuilder_commit(typeBuilder, hash_stream)
           rh          == write_stream(sink, streams.hash_bytes)
           r           == write_stream(rh.s, streams.type_bytes)
       IN  /\ allocator' = allocate(allocator, rh.layout)
           /\ sink' = r.s
           /\ typeLayout' = r.layout
    /\ pc' = "types_committed"
    /\ UNCHANGED <<typeBuilder, typeAdded, typeStream, builtin, written, superblock,
                   pdbFile, readback, exceptTypes>>

\* PdbFile::get_tpi behind the read of the stream
get_tpi_from(input) ==
    IF input.tag # "ok" THEN input ELSE TypeStream_read(input.value)

\* PdbFile::get_tpi on the stream of the layout
get_tpi(file, layout) ==
    get_tpi_from(read_to_end(file, layout, BLOCK_SIZE, [position |-> 0, raw |-> 0]))

\* PdbFile::get_tpi_hash behind the read of the hash stream
get_tpi_hash_from(stream, blocks, hash_layout) ==
    IF stream.tag # "ok" THEN stream
    ELSE TypeHash_read(stream.value, blocks, hash_layout)

\* PdbFile::get_tpi_hash for the type stream tpi
get_tpi_hash(file, layouts, tpi) ==
    IF tpi.tag # "ok" THEN tpi
    ELSE IF tpi.value.header.hash_stream_index >= Len(layouts)
    THEN Err("StreamNotFound")
    ELSE get_tpi_hash_from(
             read_to_end(file, layouts[tpi.value.header.hash_stream_index + 1],
                         BLOCK_SIZE, [position |-> 0, raw |-> 0]),
             layouts[tpi.value.header.hash_stream_index + 1].blocks,
             tpi.value.header.hash_layout)

\* the type stream and its hash stream as they are read
read_types(tpi, file, layouts) ==
    [tpi |-> tpi, hash |-> get_tpi_hash(file, layouts, tpi)]

\* PdbFile::get_tpi and PdbFile::get_tpi_hash on the streams written
TypeRead ==
    /\ pc = "types_committed"
    /\ typeStream' = read_types(get_tpi(sink.data, typeLayout), sink.data, allocator)
    /\ pc' = "types_read"
    /\ UNCHANGED <<typeBuilder, typeAdded, typeLayout, msfVars, exceptTypes>>

NextTypes == TypeAdd \/ TypeCommit \/ TypeRead

SpecTypes == InitTypes /\ [][NextTypes]_vars

\* the type indices probed outside the range of the records read
OutsideIndices(n) ==
    {1, 116, FIRST_NON_BUILTIN_TYPE - 1, FIRST_NON_BUILTIN_TYPE + n,
     FIRST_NON_BUILTIN_TYPE + n + 1}

\* C14: the k-th add returns 0x1000 + k; after commit and read of N records
\* the header has type_index_begin 0x1000 and type_index_end 0x1000 + N,
\* record(0x1000 + k) is the k-th added record, and no index outside
\* 0x1000 .. 0x1000 + N resolves to a record.
C14_TypeIndexBijection ==
    /\ \A k \in DOMAIN typeAdded : typeAdded[k].index = FIRST_NON_BUILTIN_TYPE + (k - 1)
    /\ pc = "types_read" =>
          /\ typeStream.tpi.tag = "ok"
          /\ LET ts == typeStream.tpi.value
                 N  == Len(typeAdded)
             IN  /\ ts.header.type_index_begin = FIRST_NON_BUILTIN_TYPE
                 /\ ts.header.type_index_end = FIRST_NON_BUILTIN_TYPE + N
                 /\ \A k \in 1..N :
                       TypeStream_record(ts, FIRST_NON_BUILTIN_TYPE + (k - 1))
                           = {Some(typeAdded[k].record)}
                 /\ \A idx \in OutsideIndices(N) :
                       \A res \in TypeStream_record(ts, idx) :
                           res = None \/ res = Panic("attempt to subtract with overflow")

\* the records whose padded list has an element of a size that is a
\* multiple of RECORD_ALIGNMENT
MisalignedList(typ) ==
    /\ typ.kind = "Array"
    /\ \E k \in DOMAIN typ.dimensions :
          Integer_encoded_size(typ.dimensions[k]) % RECORD_ALIGNMENT = 0

\* C14 when no such record was added
C14_BijectionWithoutMisalignedList ==
    (pc = "types_read" /\ \A k \in DOMAIN typeAdded : ~MisalignedList(typeAdded[k].record))
    =>  /\ typeStream.tpi.tag = "ok"
        /\ LET ts == typeStream.tpi.value
               N  == Len(typeAdded)
           IN  /\ ts.header.type_index_begin = FIRST_NON_BUILTIN_TYPE
               /\ ts.header.type_index_end = FIRST_NON_BUILTIN_TYPE + N
               /\ \A k \in 1..N :
                     TypeStream_record(ts, FIRST_NON_BUILTIN_TYPE + (k - 1))
                         = {Some(typeAdded[k].record)}
               /\ \A idx \in OutsideIndices(N) :
                     \A res \in TypeStream_record(ts, idx) :
                         res = None \/ res = Panic("attempt to subtract with overflow")

\* the names added are pairwise distinct
DistinctNames ==
    \A j, k \in DOMAIN typeAdded : j # k => typeAdded[j].name # typeAdded[k].name

\* C15: when the names added are pairwise distinct, after commit and read
\* get_index of the k-th name returns the index the k-th add returned.
C15_TypeLookupByName ==
    (pc = "types_read" /\ DistinctNames) =>
        /\ typeStream.hash.tag = "ok"
        /\ \A k \in DOMAIN typeAdded :
              TypeHash_get_index(typeStream.hash.value, typeAdded[k].name)
                  = Some(typeAdded[k].index)

\* the names added are pairwise distinct after ASCII lower-casing
DistinctFoldedNames ==
    \A j, k \in DOMAIN typeAdded :
        j # k => Fold(typeAdded[j].name) # Fold(typeAdded[k].name)

\* C15 for names that differ in more than case, in a stream that was read
C15_LookupOfNamesDistinctIgnoringCase ==
    (pc = "types_read" /\ DistinctFoldedNames /\ typeStream.hash.tag = "ok") =>
        \A k \in DOMAIN typeAdded :
            TypeHash_get_index(typeStream.hash.value, typeAdded[k].name)
                = Some(typeAdded[k].index)

\* ---------------------------------------------------------------------
\* PdbFile::open on a directory with absent streams
\* ---------------------------------------------------------------------
MaxDirStreams == 3
\* the sizes of the directory entries: None stands for 0xFFFFFFFF
DirSizes == {None, Some(0), Some(1), Some(BLOCK_SIZE), Some(BLOCK_SIZE + 1)}
\* the block at which the directory of the file starts
DirStarts == {3, BLOCK_SIZE}

\* the number of block indices the directory holds for the first k entries
RECURSIVE DirBlocksBefore(_, _)
DirBlocksBefore(sizes, k) ==
    IF k = 0 THEN 0
    ELSE DirBlocksBefore(sizes, k - 1)
             + (IF sizes[k] = None THEN 0 ELSE div_ceil(sizes[k][1], BLOCK_SIZE))

\* the entries of a directory with these sizes: the block lists are taken
\* in order from the block indices 100, 101, ...
DirEntries(sizes) ==
    [k \in DOMAIN sizes |->
        [size   |-> sizes[k],
         blocks |-> IF sizes[k] = None THEN <<>>
                    ELSE [j \in 1..div_ceil(sizes[k][1], BLOCK_SIZE) |->
                             99 + DirBlocksBefore(sizes, k - 1) + j]]]

RECURSIVE encode_sizes(_)
encode_sizes(entries) ==
    IF entries = <<>> THEN <<>>
    ELSE (IF entries[1].size = None THEN U32_MAX_BYTES ELSE LE(entries[1].size[1], 4))
             \o encode_sizes(Tail(entries))

\* the stream directory of section "MSF container": the count, the sizes,
\* the block lists of the streams that are not absent
DirectoryOf(entries) ==
    LE(Len(entries), 4) \o encode_sizes(entries) \o encode_block_lists(entries)

\* a file whose directory starts at block start, written by the stream
\* writer, followed by its address map
DirectoryFile(entries, start) ==
    LET at        == [data |-> Zeros(start * BLOCK_SIZE), pos |-> start * BLOCK_SIZE]
        directory == write_stream(at, DirectoryOf(entries))
        addr_map  == write_stream(directory.s, encode_u32s(directory.layout.blocks))
    IN  [file |-> addr_map.s.data,
         main |-> [block_size           |-> BLOCK_SIZE,
                   free_block_map_block |-> 1,
                   num_blocks           |-> Len(addr_map.s.data) \div BLOCK_SIZE,
                   num_dir_bytes        |-> directory.layout.byte_size,
                   unknown              |-> 0,
                   block_map_addr       |-> addr_map.layout.blocks[1]],
         directory |-> directory.layout]

InitDirectory ==
    /\ pc = "file"
    /\ \E sizes \in SeqsUpTo(DirSizes, MaxDirStreams), start \in DirStarts :
        LET f == DirectoryFile(DirEntries(sizes), start)
        IN  /\ dirEntries = DirEntries(sizes)
            /\ sink = [data |-> f.file, pos |-> 0]
            /\ superblock = f.main
            /\ builtin = f.directory
    /\ allocator = <<>> /\ written = <<>> /\ pdbFile = <<>> /\ readback = <<>>
    /\ IdleWriter
    /\ IdleHash /\ IdleCmp /\ IdleSym /\ IdleInt /\ IdleRec /\ IdleType /\ IdleLate

\* PdbFile::open on the file
OpenDirectory ==
    /\ pc = "file"
    /\ pdbFile' = open(sink.data, superblock)
    /\ pc' = "directory_opened"
    /\ UNCHANGED <<sink, allocator, builtin, written, superblock, readback, dirEntries,
                   exceptDir>>

\* PdbFile::get_indexed_stream: the layout the stream reader is made of
get_indexed_stream(pdb, index) ==
    IF index < Len(pdb.layouts) THEN Some(pdb.layouts[index + 1]) ELSE None

\* the first step of every accessor of PdbFile: ok_or(Error::StreamNotFound)
\* on the stream of the index
stream_or_not_found(pdb, index) ==
    LET stream == get_indexed_stream(pdb, index)
    IN  IF stream = None THEN Err("StreamNotFound") ELSE Ok(stream[1], 0)

\* StreamIndex(u16::MAX), the index of a stream that was not written
STREAM_INDEX_NONE == 65535
\* the indices handed to the accessors: the fixed ones, the ones behind
\* the directory, and the index of no stream
StreamIndices == 0..(MaxDirStreams + 1) \cup {STREAM_INDEX_NONE}

\* an accessor of the opened file resolves a stream index
GetIndexedStream ==
    /\ pc \in {"directory_opened", "resolved"}
    /\ pdbFile.tag = "ok"
    /\ \E index \in StreamIndices :
           readback' = [index |-> index, res |-> stream_or_not_found(pdbFile, index)]
    /\ pc' = "resolved"
    /\ UNCHANGED <<sink, allocator, builtin, written, superblock, pdbFile, dirEntries,
                   exceptDir>>

NextDirectory == OpenDirectory \/ GetIndexedStream

SpecDirectory == InitDirectory /\ [][NextDirectory]_vars

\* the layouts of the entries that are not absent, in order
PresentLayouts(entries) ==
    LET present == SelectSeq(entries, LAMBDA e : e.size # None)
    IN  [k \in DOMAIN present |-> MsfStreamLayout(present[k].blocks, present[k].size[1])]

\* C16: open restores every size other than 0xFFFFFFFF in order, gives the
\* stream the next ceil(size / block_size) block indices of the directory,
\* and drops an entry of size 0xFFFFFFFF without consuming a block index.
C16_DirectoryDecoding ==
    pc = "directory_opened" =>
        /\ pdbFile.tag = "ok"
        /\ pdbFile.layouts = PresentLayouts(dirEntries)

\* the directory of the file lies in consecutive blocks
DirectoryFileContiguous ==
    \A k \in 1..(Len(builtin.blocks) - 1) : builtin.blocks[k + 1] = builtin.blocks[k] + 1

\* C16 for the files whose directory lies in consecutive blocks
C16_DecodingOfContiguousDirectory ==
    (pc = "directory_opened" /\ DirectoryFileContiguous) =>
        /\ pdbFile.tag = "ok"
        /\ pdbFile.layouts = PresentLayouts(dirEntries)

\* the directory entry of a stream index is absent: the index is that of
\* no stream, is not below the number of entries, or its size is 0xFFFFFFFF
AbsentInDirectory(index) ==
    \/ index = STREAM_INDEX_NONE
    \/ index >= Len(dirEntries)
    \/ dirEntries[index + 1].size = None

\* C24: an accessor returns StreamNotFound, and no stream, when the
\* directory entry of the index it needs is absent.
C24_AbsentStreamNotFound ==
    (pc = "resolved" /\ AbsentInDirectory(readback.index)) =>
        readback.res = Err("StreamNotFound")

\* C24 for the indices that are not below the number of layouts of the
\* opened file; the index of no stream is one of them
C24_NotFoundBehindTheLayouts ==
    (pc = "resolved" /\ readback.index >= Len(pdbFile.layouts)) =>
        readback.res = Err("StreamNotFound")

\* C30: stream index i resolves to the size and the block list of the
\* i-th directory entry, also when an entry before it is absent.
C30_IndexIsDirectoryPosition ==
    (pc = "resolved" /\ ~AbsentInDirectory(readback.index)) =>
        LET entry == dirEntries[readback.index + 1]
        IN  readback.res = Ok(MsfStreamLayout(entry.blocks, entry.size[1]), 0)

\* C30 for the files whose directory lies in consecutive blocks and has no
\* absent entry before the index
C30_PositionWithoutAbsentEntries ==
    (/\ pc = "resolved"
     /\ DirectoryFileContiguous
     /\ ~AbsentInDirectory(readback.index)
     /\ \A k \in 1..readback.index : dirEntries[k].size # None) =>
        LET entry == dirEntries[readback.index + 1]
        IN  readback.res = Ok(MsfStreamLayout(entry.blocks, entry.size[1]), 0)

\* ---------------------------------------------------------------------
\* Order of the streams in the file
\* ---------------------------------------------------------------------

\* the streams written one after the other, each by a writer of its own
\* that takes the whole content in one write_all
RECURSIVE Replay(_, _, _)
Replay(contents, s, layouts) ==
    IF contents = <<>> THEN [s |-> s, layouts |-> layouts]
    ELSE LET r == write_stream(s, contents[1])
         IN  Replay(Tail(contents), r.s, Append(layouts, r.layout))

StrictlyIncreasing(blocks) ==
    \A k \in 1..(Len(blocks) - 1) : blocks[k] < blocks[k + 1]

\* the block lists in the order their writers were finished, the list of
\* the writer still open last
BlockListsInOrder ==
    [k \in DOMAIN allocator |-> allocator[k].blocks]
        \o (IF pc = "writing" THEN <<writer.blocks>> ELSE <<>>)

\* C17: a stream finished earlier has all its block indices below those of
\* a later one, every block list is strictly increasing, no block index is
\* in two lists; and the block lists and the file are determined by the
\* contents of the streams in commit order.
C17_StreamOrderAndDeterminism ==
    LET lists == BlockListsInOrder
    IN  /\ \A j, k \in DOMAIN lists :
              j < k => \A a \in DOMAIN lists[j], b \in DOMAIN lists[k] :
                           lists[j][a] < lists[k][b]
        /\ \A k \in DOMAIN lists : StrictlyIncreasing(lists[k])
        /\ \A j, k \in DOMAIN lists :
              j # k => \A a \in DOMAIN lists[j], b \in DOMAIN lists[k] :
                           lists[j][a] # lists[k][b]
        /\ pc = "sink" =>
              LET again == Replay(finished,
                                  write_all(write_all(write_all([data |-> <<>>, pos |-> 0],
                                      EMPTY_BLOCK), FULL_BLOCK), FULL_BLOCK), <<>>)
              IN  /\ again.layouts = allocator
                  /\ again.s = sink

\* two streams of more than one block have been finished, the second across
\* the FPM slots
C17_Witness ==
    /\ pc = "sink"
    /\ Len(allocator) = 2
    /\ Len(allocator[1].blocks) > 1
    /\ Len(allocator[2].blocks) > 1
    /\ allocator[2].blocks[1] < BLOCK_SIZE
    /\ allocator[2].blocks[Len(allocator[2].blocks)] > BLOCK_SIZE + 2

(***************************************************************************)
(* The string table: strings.rs                                            *)
(***************************************************************************)

\* the length of BUCKET_COUNTS
BUCKET_COUNTS_LEN == 28

\* the loop of generate_buckets. An iteration whose test fails changes i
\* only, so i goes at once to the first value for which the test succeeds.
RECURSIVE generate_buckets_loop(_, _, _, _)
generate_buckets_loop(buf, cur_buckets, i, j) ==
    IF Len(buf) = BUCKET_COUNTS_LEN THEN buf
    ELSE IF (cur_buckets * 3) \div 4 < i
         THEN generate_buckets_loop(Append(buf, <<j, cur_buckets>>),
                                    (cur_buckets * 3) \div 2 + 1, i + 1, i)
         ELSE generate_buckets_loop(buf, cur_buckets, (cur_buckets * 3) \div 4 + 1, j)

\* bucket_counts::generate_buckets
generate_buckets == generate_buckets_loop(<<>>, 1, 0, 0)

\* static BUCKET_COUNTS; entry k of the array is BUCKET_COUNTS[k + 1]
BUCKET_COUNTS == generate_buckets

\* slice::binary_search_by_key on the keys of BUCKET_COUNTS, which are
\* strictly increasing: Ok(index of the key) or Err(index where it would be)
binary_search_by_key(n) ==
    LET below == Cardinality({k \in DOMAIN BUCKET_COUNTS : BUCKET_COUNTS[k][1] < n})
    IN  IF \E k \in DOMAIN BUCKET_COUNTS : BUCKET_COUNTS[k][1] = n
        THEN [ok |-> TRUE, index |-> below]
        ELSE [ok |-> FALSE, index |-> below]

\* get_bucket_count with unwrap_or_else(|i| i), clamped to the table
get_bucket_count_at_insertion_point(n) ==
    LET found == binary_search_by_key(n)
        idx == Min(found.index, BUCKET_COUNTS_LEN - 1)
    IN  BUCKET_COUNTS[idx + 1][2]

\* bucket_counts::get_bucket_count
get_bucket_count(n) ==
    LET found == binary_search_by_key(n)
        idx == IF found.ok THEN found.index ELSE found.index - 1
    IN  BUCKET_COUNTS[idx + 1][2]

\* the arguments tried: all small ones, each key of the table with its
\* neighbours, the largest count the table covers and the two after it
MaxBucketArg == 64

BucketArgs ==
    (0..MaxBucketArg)
    \cup UNION {{BUCKET_COUNTS[k][1] - 1, BUCKET_COUNTS[k][1], BUCKET_COUNTS[k][1] + 1} \cap Nat
                : k \in DOMAIN BUCKET_COUNTS}
    \cup {c + d : c \in {(BUCKET_COUNTS[BUCKET_COUNTS_LEN][2] * 3) \div 4,
                         BUCKET_COUNTS[BUCKET_COUNTS_LEN][2]},
                  d \in 0..1}

InitBuckets ==
    /\ pc = "bucket_arg"
    /\ bucketArg \in BucketArgs
    /\ bucketRes = <<>>
    /\ stringsBuilder = <<>> /\ stringsAdded = <<>> /\ strings = <<>>
    /\ IdleHash /\ IdleCmp /\ IdleSym /\ IdleInt /\ IdleRec /\ IdleMsf
    /\ IdleWriter /\ IdleType /\ IdleDir /\ IdlePub /\ IdleLast

GetBucketCount ==
    /\ pc = "bucket_arg"
    /\ bucketRes' = get_bucket_count(bucketArg)
    /\ pc' = "bucket_count"
    /\ UNCHANGED <<bucketArg, stringsBuilder, stringsAdded, strings, exceptStr>>

NextBuckets == GetBucketCount

SpecBuckets == InitBuckets /\ [][NextBuckets]_vars

\* the sequence 1, 2, 4, 7, 11, 17, ...: each value the one before * 3 / 2 + 1
RECURSIVE BucketSequence(_)
BucketSequence(k) ==
    IF k = 1 THEN 1 ELSE (BucketSequence(k - 1) * 3) \div 2 + 1

BucketSequenceMembers == {BucketSequence(k) : k \in 1..BUCKET_COUNTS_LEN}

\* the counts the table covers: those within the threshold of its last entry
Covered(n) == n <= (BucketSequence(BUCKET_COUNTS_LEN) * 3) \div 4

SmallestSufficient(n) ==
    CHOOSE B \in BucketSequenceMembers :
        /\ (3 * B) \div 4 >= n
        /\ \A C \in BucketSequenceMembers : (3 * C) \div 4 >= n => B <= C

BucketExamples ==
    {<<0, 1>>, <<1, 2>>, <<2, 4>>, <<3, 4>>, <<4, 7>>, <<5, 7>>, <<6, 11>>, <<7, 11>>,
     <<8, 11>>, <<9, 17>>, <<20482, 40963>>}

\* C18: for every count n the table covers, get_bucket_count(n) is the
\* smallest member B of the sequence 1, 2, 4, 7, 11, 17, ... with
\* floor(3 * B / 4) >= n, as in the examples 0 -> 1, ..., 20482 -> 40963,
\* and so is greater than n.
C18_BucketSizing ==
    (pc = "bucket_count" /\ Covered(bucketArg)) =>
        /\ bucketRes = SmallestSufficient(bucketArg)
        /\ bucketRes > bucketArg
        /\ \A e \in BucketExamples : bucketArg = e[1] => bucketRes = e[2]

\* the count of the last example has got its bucket count
C18_Witness ==
    /\ pc = "bucket_count"
    /\ bucketArg = 20482
    /\ bucketRes = 40963

\* ---------------------------------------------------------------------
\* StringsBuilder
\* ---------------------------------------------------------------------

\* impl Default for StringsBuilder
StringsBuilder_default == [bytes |-> <<0>>, offsets |-> <<>>]

\* StringsBuilder::add
StringsBuilder_add(b, str) ==
    LET offset == Len(b.bytes)
    IN  [bytes   |-> b.bytes \o str \o <<0>>,
         offsets |-> Append(b.offsets, <<hash_v1(str), offset>>)]

\* hash + i leaves the u32 range
add_overflows(hash, i) == hash.hi = 65535 /\ hash.lo + i >= 65536

\* (hash + i) % buckets, the sum wrapped where it leaves the u32 range
probe_slot(hash, i, buckets) ==
    IF add_overflows(hash, i) THEN (hash.lo + i - 65536) % buckets
    ELSE ((hash.hi % buckets) * (65536 % buckets) + (hash.lo % buckets) + i) % buckets

\* the inner loop of build, for i in 0..buckets, from i on; ids[slot + 1] is
\* slot `slot`. overflow: some hash + i left the u32 range.
RECURSIVE build_probe(_, _, _, _)
build_probe(ids, hash, offset, i) ==
    LET buckets == Len(ids)
        slot == probe_slot(hash, i, buckets)
    IN  IF i >= buckets THEN [ids |-> ids, overflow |-> FALSE]
        ELSE IF ids[slot + 1] # 0
             THEN \* Some(el) if *el != 0 => { *el = offset; break }
                  [ids |-> [ids EXCEPT ![slot + 1] = offset],
                   overflow |-> add_overflows(hash, i)]
             ELSE \* _ => {}
                  LET rest == build_probe(ids, hash, offset, i + 1)
                  IN  [rest EXCEPT !.overflow = @ \/ add_overflows(hash, i)]

\* the outer loop of build: for (hash, offset) in self.offsets
RECURSIVE build_insert(_, _)
build_insert(ids, offsets) ==
    IF offsets = <<>> THEN [ids |-> ids, overflow |-> FALSE]
    ELSE LET one  == build_probe(ids, offsets[1][1], offsets[1][2], 0)
             rest == build_insert(one.ids, Tail(offsets))
         IN  [rest EXCEPT !.overflow = @ \/ one.overflow]

\* StringsBuilder::build: the outcomes. An addition that leaves the u32
\* range panics in a build with overflow checks and wraps in one without.
StringsBuilder_build(b) ==
    LET buckets == get_bucket_count(Len(b.offsets))
        filled  == build_insert(Zeros(buckets), b.offsets)
    IN  {[hash_version |-> "V1", bytes |-> b.bytes, ids |-> filled.ids,
          name_count |-> Len(b.offsets)]}
        \cup (IF filled.overflow THEN {Panic("attempt to add with overflow")} ELSE {})

MaxStrings == 3
StringNames == {<<65>>, <<97>>, <<66>>, <<65, 66>>}

InitStrings ==
    /\ pc = "strings"
    /\ stringsBuilder = StringsBuilder_default
    /\ stringsAdded = <<>>
    /\ strings = <<>>
    /\ bucketArg = <<>> /\ bucketRes = <<>>
    /\ IdleHash /\ IdleCmp /\ IdleSym /\ IdleInt /\ IdleRec /\ IdleMsf
    /\ IdleWriter /\ IdleType /\ IdleDir /\ IdlePub /\ IdleLast

StringsAdd ==
    /\ pc = "strings"
    /\ Len(stringsAdded) < MaxStrings
    /\ \E str \in StringNames :
           /\ stringsBuilder' = StringsBuilder_add(stringsBuilder, str)
           /\ stringsAdded' = Append(stringsAdded, str)
    /\ UNCHANGED <<pc, strings, bucketArg, bucketRes, exceptStr>>

StringsBuild ==
    /\ pc = "strings"
    /\ \E built \in StringsBuilder_build(stringsBuilder) : strings' = built
    /\ pc' = "built"
    /\ UNCHANGED <<stringsBuilder, stringsAdded, bucketArg, bucketRes, exceptStr>>

NextStrings == StringsAdd \/ StringsBuild

SpecStrings == InitStrings /\ [][NextStrings]_vars

\* the offset of the k-th added string in the buffer
AddedOffset(k) == stringsBuilder.offsets[k][2]

\* insertion at the first empty slot of the probe sequence
RECURSIVE FirstEmptySlot(_, _, _)
FirstEmptySlot(ids, hash, i) ==
    LET slot == probe_slot(hash, i, Len(ids))
    IN  IF ids[slot + 1] = 0 THEN slot ELSE FirstEmptySlot(ids, hash, i + 1)

RECURSIVE InsertedAtFirstEmpty(_, _)
InsertedAtFirstEmpty(ids, offsets) ==
    IF offsets = <<>> THEN ids
    ELSE LET slot == FirstEmptySlot(ids, offsets[1][1], 0)
         IN  InsertedAtFirstEmpty([ids EXCEPT ![slot + 1] = offsets[1][2]],
                                  Tail(offsets))

\* C19: after build every added string's offset is in ids, at the first slot
\* of its probe sequence that was empty when it was inserted; the number of
\* non-zero slots is name_count; no stored offset is overwritten.
C19_StringsInsertion ==
    (pc = "built" /\ strings # Panic("attempt to add with overflow")) =>
        /\ strings.ids = InsertedAtFirstEmpty(Zeros(Len(strings.ids)),
                                              stringsBuilder.offsets)
        /\ \A k \in DOMAIN stringsAdded :
               \E slot \in DOMAIN strings.ids : strings.ids[slot] = AddedOffset(k)
        /\ Cardinality({slot \in DOMAIN strings.ids : strings.ids[slot] # 0})
               = strings.name_count

\* what build does: a slot is written only when it is not empty, and none
\* is at the start, so ids stays all zero; the count and the buffer are
\* those of the added strings
C19_IdsStayEmpty ==
    (pc = "built" /\ strings # Panic("attempt to add with overflow")) =>
        /\ strings.ids = Zeros(get_bucket_count(Len(stringsAdded)))
        /\ strings.name_count = Len(stringsAdded)
        /\ \A k \in DOMAIN stringsAdded :
               Slice(strings.bytes, AddedOffset(k) + 1,
                     AddedOffset(k) + Len(stringsAdded[k])) = stringsAdded[k]

(***************************************************************************)
(* The publics stream: publics.rs                                          *)
(***************************************************************************)

\* DataRegionOffset::new
DataRegionOffset(offset, segment) == [offset |-> offset, segment |-> segment]

\* codeview::symbols::Public, as the variant SymbolRecord::Public32 so that
\* its name is found by SymbolRecord_name
Public(properties, offset, name) ==
    [kind |-> "Public32", properties |-> properties, offset |-> offset, name |-> name]

\* Ord::cmp of u32 and u16
int_cmp(a, b) == IF a < b THEN -1 ELSE IF a > b THEN 1 ELSE 0

\* DataRegionOffset comparing the offset first and then the segment
DataRegionOffset_cmp_offset_first(a, b) ==
    IF int_cmp(a.offset, b.offset) # 0 THEN int_cmp(a.offset, b.offset)
    ELSE int_cmp(a.segment, b.segment)

\* <DataRegionOffset as Ord>::cmp
DataRegionOffset_cmp(a, b) ==
    IF int_cmp(a.segment, b.segment) # 0 THEN int_cmp(a.segment, b.segment)
    ELSE int_cmp(a.offset, b.offset)

\* derived EncodedSize of Public: properties, offset (u32, u16), name
Public_encoded_size(public) == 4 + (4 + 2) + StrBuf_encoded_size(public.name)

\* PublicsBuilder::add: the builder after the call
PublicsBuilder_add(symbols_builder, public) ==
    LET offset == symbols_builder.offset
        size == 2 * 2 + Public_encoded_size(public)
    IN  [publics |-> insert(symbols_builder.publics, offset, public),
         offset  |-> symbols_builder.offset + align_to(size, RECORD_ALIGNMENT)]

\* address_map.sort_by_key(|off| publics.get(off).map(|sym| &sym.offset)), a
\* stable sort: each element goes behind the last one whose key is not greater
RECURSIVE sort_by_key(_, _)
sort_by_key(offs, mapping) ==
    IF Len(offs) <= 1 THEN offs
    ELSE LET n    == Len(offs)
             init == sort_by_key(SubSeq(offs, 1, n - 1), mapping)
             x    == offs[n]
             le   == {i \in 1..(n - 1) :
                         DataRegionOffset_cmp(mapping[init[i]].offset, mapping[x].offset) <= 0}
             k    == IF le = {} THEN 0 ELSE CHOOSE i \in le : \A j \in le : j <= i
         IN  SubSeq(init, 1, k) \o <<x>> \o SubSeq(init, k + 1, n - 1)

\* Publics::from_publics
Publics_from_publics(mapping) ==
    [map         |-> from_symbols(mapping),
     address_map |-> sort_by_key(keys(DOMAIN mapping), mapping),
     thunk_map   |-> <<>>]

\* SymbolMap::get_header: an IndexRecord takes 8 bytes, a word of the bitmap
\* and a bucket 4 each
SymbolMap_get_header(map) ==
    [hr_size     |-> 8 * Len(map.hash_records),
     num_buckets |-> 4 * BITMAP_SIZE + 4 * Len(map.buckets)]

\* derived EncodedSize of GsiHashHeader: two magic words and two u32
GsiHashHeader_encoded_size == 4 + 4 + 4 + 4

\* derived Encode of GsiHashHeader: SignatureVersion is u32::MAX, HdrVersion
\* is 0xeffe0000 + 19990810 = 0xf12f091a, both little-endian
GsiHashHeader_encode(header) ==
    <<255, 255, 255, 255>> \o <<26, 9, 47, 241>>
        \o LE(header.hr_size, 4) \o LE(header.num_buckets, 4)

\* derived EncodedSize of SymbolMap
SymbolMap_encoded_size(map) ==
    8 * Len(map.hash_records) + 4 * BITMAP_SIZE + 4 * Len(map.buckets)

\* byte j (0..3) of a word of the bitmap, little-endian
bitmap_byte(word, j) ==
    LET bit(b) == IF (8 * j + b) \in word THEN Pow2(b) ELSE 0
    IN  bit(0) + bit(1) + bit(2) + bit(3) + bit(4) + bit(5) + bit(6) + bit(7)

RECURSIVE encode_hash_records(_)
encode_hash_records(recs) ==
    IF recs = <<>> THEN <<>>
    ELSE LE(recs[1].offset, 4) \o LE(recs[1].ref_count, 4)
             \o encode_hash_records(Tail(recs))

\* <[u32; BITMAP_SIZE] as Encode>::encode
encode_bitmap(bitmap) ==
    [i \in 1..(4 * BITMAP_SIZE) |-> bitmap_byte(bitmap[(i - 1) \div 4], (i - 1) % 4)]

\* <SymbolMap as Encode>::encode
SymbolMap_encode(map) ==
    encode_hash_records(map.hash_records)
        \o encode_bitmap(map.bitmap)
        \o encode_u32s(map.buckets)

\* derived Encode of PublicsHeader
PublicsHeader_encode(header) ==
    LE(header.sym_hash, 4) \o LE(header.addr_map, 4) \o LE(header.num_thunks, 4)
        \o LE(header.size_of_thunk, 4) \o LE(header.i_sect_thunk_table, 2)
        \o header.reserved \o LE(header.off_thunk_table, 4)
        \o LE(header.num_sections, 4)

\* the PublicsHeader of Publics::write_with_header
Publics_header(p) ==
    [sym_hash   |-> GsiHashHeader_encoded_size + SymbolMap_encoded_size(p.map),
     addr_map   |-> 4 * Len(p.address_map),
     num_thunks |-> 0, size_of_thunk |-> 0, i_sect_thunk_table |-> 0,
     reserved   |-> <<0, 0>>, off_thunk_table |-> 0, num_sections |-> 0]

\* Publics::write_with_header: the bytes written to the sink
Publics_write_with_header(p) ==
    PublicsHeader_encode(Publics_header(p))
        \o GsiHashHeader_encode(SymbolMap_get_header(p.map))
        \o SymbolMap_encode(p.map)
        \o encode_u32s(p.address_map)

MaxPublics == 3
PublicNames == {<<65>>, <<66, 66, 66, 66>>}
PublicOffsets == {DataRegionOffset(1, 2), DataRegionOffset(2, 1), DataRegionOffset(1, 1)}

\* SymbolsBuilder::default
InitPublics ==
    /\ pc = "publics"
    /\ pubBuilder = [publics |-> <<>>, offset |-> 0]
    /\ publics = <<>>
    /\ pubWritten = <<>>
    /\ IdleHash /\ IdleCmp /\ IdleSym /\ IdleInt /\ IdleRec /\ IdleMsf
    /\ IdleWriter /\ IdleType /\ IdleDir /\ IdleStr /\ IdleLast

AddPublic ==
    /\ pc = "publics"
    /\ Cardinality(DOMAIN pubBuilder.publics) < MaxPublics
    /\ \E name \in PublicNames, offset \in PublicOffsets :
           pubBuilder' = PublicsBuilder_add(pubBuilder, Public(0, offset, name))
    /\ UNCHANGED <<pc, publics, pubWritten, exceptPub>>

\* Publics::from_publics(&self.publics).write_with_header(&mut publics_stream)
WritePublics ==
    /\ pc = "publics"
    /\ publics' = Publics_from_publics(pubBuilder.publics)
    /\ pubWritten' = Publics_write_with_header(publics')
    /\ pc' = "publics_written"
    /\ UNCHANGED <<pubBuilder, exceptPub>>

NextPublics == AddPublic \/ WritePublics

SpecPublics == InitPublics /\ [][NextPublics]_vars

\* the public a symbol offset stands for
PublicAt(off) == pubBuilder.publics[off]

\* segment first, then offset
RegionBefore(a, b) ==
    \/ a.segment < b.segment
    \/ a.segment = b.segment /\ a.offset < b.offset

\* C20: the address map holds every public's symbol offset exactly once, in
\* non-decreasing order of the public's DataRegionOffset (segment first, then
\* offset), equal ones in ascending symbol offset; the header written has
\* addr_map = 4 * the number of publics and sym_hash = the number of bytes
\* of the GsiHashHeader and the symbol map written behind it.
C20_PublicsAddressMap ==
    pc = "publics_written" =>
        LET am == publics.address_map
            n  == Cardinality(DOMAIN pubBuilder.publics)
            sym_hash == FromLE(Slice(pubWritten, 1, 4))
            addr_map == FromLE(Slice(pubWritten, 5, 8))
            gsi == GsiHashHeader_encode(SymbolMap_get_header(publics.map))
            map == SymbolMap_encode(publics.map)
        IN  /\ Len(am) = n
            /\ {am[i] : i \in DOMAIN am} = DOMAIN pubBuilder.publics
            /\ \A i, j \in DOMAIN am :
                   i < j =>
                       \/ RegionBefore(PublicAt(am[i]).offset, PublicAt(am[j]).offset)
                       \/ /\ PublicAt(am[i]).offset = PublicAt(am[j]).offset
                          /\ am[i] < am[j]
            /\ addr_map = 4 * n
            /\ sym_hash = Len(gsi) + Len(map)
            /\ Slice(pubWritten, 29, 28 + sym_hash) = gsi \o map
            /\ Drop(pubWritten, 28 + sym_hash) = encode_u32s(am)

\* three publics are written: the first added is last in the address map,
\* the other two have the same DataRegionOffset
C20_Witness ==
    /\ pc = "publics_written"
    /\ Len(publics.address_map) = 3
    /\ publics.address_map[3] = 0
    /\ PublicAt(publics.address_map[1]).offset = PublicAt(publics.address_map[2]).offset
    /\ PublicAt(0).offset.offset < PublicAt(publics.address_map[1]).offset.offset

(***************************************************************************)
(* The stream reader: msf.rs                                               *)
(***************************************************************************)

\* the streams given to the reader have up to MaxSeekBlocks blocks of data
MaxSeekBlocks == 2
SeekSizes == {0, 1, BLOCK_SIZE - 1, BLOCK_SIZE, BLOCK_SIZE + 1, MaxSeekBlocks * BLOCK_SIZE}
\* the block list of a layout of n blocks: descending, no two adjacent
SeekBlocks(n) == [k \in 1..n |-> 3 + 2 * (n - k)]
\* a file of n blocks whose bytes differ from block to block
SeekFile(n) == [k \in 1..(n * BLOCK_SIZE) |-> 1 + ((k * 7 + k \div BLOCK_SIZE) % 251)]

\* <MsfStream as io::Seek>::seek(SeekFrom::Start(pos))
MsfStream_seek(layout, block_size, pos) ==
    LET cur == pos \div block_size
    IN  IF cur >= Len(layout.blocks) THEN Panic("index out of bounds")
        ELSE [tag      |-> "ok",
              position |-> pos,
              raw      |-> to_file_pos(layout.blocks[cur + 1], block_size)
                               + (pos % block_size)]

\* <MsfStream as io::Read>::read with a buffer of n bytes: at is the stream
\* position before the call, from the position of the inner reader the
\* bytes were read at
MsfStream_read(file, layout, block_size, st, n) ==
    LET cur        == st.position \div block_size
        rem_block  == block_size - (st.position % block_size)
        rem_stream == layout.byte_size - st.position
    IN  IF rem_stream = 0
        THEN [tag |-> "ok", bytes |-> <<>>, position |-> st.position, raw |-> st.raw,
              from |-> st.raw]
        ELSE IF rem_block = block_size /\ cur >= Len(layout.blocks)
        THEN Panic("index out of bounds")
        ELSE LET raw  == IF rem_block = block_size
                         THEN to_file_pos(layout.blocks[cur + 1], block_size)
                         ELSE st.raw
                 len  == Min(Min(rem_stream, rem_block), n)
                 read == IF raw >= Len(file) THEN 0 ELSE Min(len, Len(file) - raw)
             IN  [tag |-> "ok", bytes |-> Slice(file, raw + 1, raw + read),
                  position |-> st.position + read, raw |-> raw + read, from |-> raw]

\* MsfStream::new on a layout of the file; the block list may hold one block
\* more than the bytes need
InitSeek ==
    /\ pc = "stream"
    /\ \E size \in SeekSizes, extra \in {0, 1} :
        LET n == div_ceil(size, BLOCK_SIZE) + extra
        IN  /\ builtin = MsfStreamLayout(SeekBlocks(n), size)
            /\ sink = [data |-> SeekFile(3 + 2 * n), pos |-> 0]
    /\ msfStream = [tag |-> "ok", position |-> 0, raw |-> 0]
    /\ readback = <<>>
    /\ allocator = <<>> /\ written = <<>> /\ superblock = <<>> /\ pdbFile = <<>>
    /\ IdleEarly /\ IdleSyms /\ IdlePdb /\ IdleVer

\* seek to a position from 0 to byte_size
MsfSeek ==
    /\ pc = "stream"
    /\ \E p \in 0..builtin.byte_size :
        /\ msfStream' = MsfStream_seek(builtin, BLOCK_SIZE, p)
        /\ readback' = [start |-> p, bytes |-> <<>>, last |-> None]
    /\ pc' = "sought"
    /\ UNCHANGED <<sink, allocator, builtin, written, superblock, pdbFile, exceptSeek>>

\* one call of read behind the seek, until a call returns 0 bytes
MsfRead ==
    /\ pc = "sought"
    /\ msfStream.tag = "ok"
    /\ IF readback.last = None THEN TRUE ELSE readback.last[1].len > 0
    /\ \E n \in {1, BLOCK_SIZE + 1} :
        LET r == MsfStream_read(sink.data, builtin, BLOCK_SIZE, msfStream, n)
        IN  IF r.tag # "ok"
            THEN msfStream' = r /\ UNCHANGED readback
            ELSE /\ msfStream' = [tag |-> "ok", position |-> r.position, raw |-> r.raw]
                 /\ readback' = [readback EXCEPT
                        !.bytes = @ \o r.bytes,
                        !.last  = Some([at   |-> msfStream.position,
                                        from |-> r.from,
                                        len  |-> Len(r.bytes)])]
    /\ UNCHANGED <<pc, sink, allocator, builtin, written, superblock, pdbFile, exceptSeek>>

NextSeek == MsfSeek \/ MsfRead

SpecSeek == InitSeek /\ [][NextSeek]_vars

\* the bytes of the logical stream of a layout
StreamBytes(file, layout) ==
    [k \in 1..layout.byte_size |->
        file[layout.blocks[(k - 1) \div BLOCK_SIZE + 1] * BLOCK_SIZE
                 + ((k - 1) % BLOCK_SIZE) + 1]]

\* the inner reader is where the seek put it and the reads behind the seek
\* have returned the bytes of the stream from there on, a call returns no
\* byte only at the end of the stream, and no call has crossed a block
PositionedAndRead ==
    /\ msfStream.tag = "ok"
    /\ readback.last = None =>
          /\ msfStream.position = readback.start
          /\ msfStream.raw =
                 builtin.blocks[readback.start \div BLOCK_SIZE + 1] * BLOCK_SIZE
                     + (readback.start % BLOCK_SIZE)
    /\ msfStream.position = readback.start + Len(readback.bytes)
    /\ \A k \in DOMAIN readback.bytes :
          readback.bytes[k] = StreamBytes(sink.data, builtin)[readback.start + k]
    /\ readback.last # None =>
          LET call == readback.last[1]
          IN  /\ call.len = 0 <=> call.at = builtin.byte_size
              /\ call.len > 0 =>
                    call.from \div BLOCK_SIZE = (call.from + call.len - 1) \div BLOCK_SIZE

\* C26: for any layout and any position p from 0 to byte_size, seek to p
\* succeeds and puts the inner reader at
\* blocks[p / block_size] * block_size + p mod block_size; the reads that
\* follow return the bytes of the stream from p on and no byte at
\* p = byte_size, each call inside one block.
C26_SeekAndRead ==
    pc = "sought" => PositionedAndRead

\* C26 for the positions whose block is in the block list
C26_SeekInsideBlockList ==
    (pc = "sought" /\ readback.start \div BLOCK_SIZE < Len(builtin.blocks)) =>
        PositionedAndRead

(***************************************************************************)
(* The symbol record stream: builders.rs                                   *)
(***************************************************************************)

MaxSymbolAdds == 3
StreamPublics == {Public(0, DataRegionOffset(1, 1), n) : n \in {<<65>>, <<66, 66, 66, 66>>}}
StreamGlobals == {ScopeEnd, UsingNamespace(<<65, 66>>), Constant(4096, Integer("U16", <<5>>), <<65>>)}

\* PublicsBuilder::add on the SymbolsBuilder with both mappings
PublicsBuilder_add_symbol(builder, public) ==
    [builder EXCEPT
        !.publics = PublicsBuilder_add([publics |-> builder.publics,
                                        offset  |-> builder.offset], public).publics,
        !.offset  = PublicsBuilder_add([publics |-> builder.publics,
                                        offset  |-> builder.offset], public).offset]

\* SymbolsBuilder::add on the SymbolsBuilder with both mappings
SymbolsBuilder_add_symbol(builder, symbol) ==
    [builder EXCEPT
        !.globals = SymbolsBuilder_add([globals |-> builder.globals,
                                        offset  |-> builder.offset], symbol).globals,
        !.offset  = SymbolsBuilder_add([globals |-> builder.globals,
                                        offset  |-> builder.offset], symbol).offset]

\* the loop `for (_, sym) in mapping` of SymbolsBuilder::commit: the framed
\* records in ascending order of the keys
RECURSIVE encode_records(_)
encode_records(mapping) ==
    IF DOMAIN mapping = {} THEN <<>>
    ELSE LET first == CHOOSE k \in DOMAIN mapping : \A j \in DOMAIN mapping : k <= j
         IN  PrefixedRecord_encode(mapping[first])
                 \o encode_records([k \in DOMAIN mapping \ {first} |-> mapping[k]])

\* the bytes SymbolsBuilder::commit hands to the writer of the symbol
\* record stream
SymbolsBuilder_commit_symbols(builder) ==
    encode_records(builder.publics) \o encode_records(builder.globals)

\* SymbolsBuilder::default
InitSymbols ==
    /\ pc = "symbols"
    /\ symBuilder = [publics |-> <<>>, globals |-> <<>>, offset |-> 0]
    /\ symAdded = <<>>
    /\ symStream = <<>>
    /\ IdleEarly /\ IdleMsf /\ IdleSeek /\ IdlePdb /\ IdleVer

\* dbi().symbols().add(public)
AddPublicSymbol ==
    /\ pc = "symbols"
    /\ Len(symAdded) < MaxSymbolAdds
    /\ \E public \in StreamPublics :
        /\ symBuilder' = PublicsBuilder_add_symbol(symBuilder, public)
        /\ symAdded' = Append(symAdded, [record |-> public, offset |-> symBuilder.offset])
    /\ UNCHANGED <<pc, symStream, msfVars, exceptSyms>>

\* dbi().symbols().finish_publics().add(symbol)
AddGlobalSymbol ==
    /\ pc = "symbols"
    /\ Len(symAdded) < MaxSymbolAdds
    /\ \E symbol \in StreamGlobals :
        /\ symBuilder' = SymbolsBuilder_add_symbol(symBuilder, symbol)
        /\ symAdded' = Append(symAdded, [record |-> symbol, offset |-> symBuilder.offset])
    /\ UNCHANGED <<pc, symStream, msfVars, exceptSyms>>

\* SymbolsBuilder::commit: the symbol record stream
CommitSymbols ==
    /\ pc = "symbols"
    /\ symStream' = SymbolsBuilder_commit_symbols(symBuilder)
    /\ pc' = "symbols_committed"
    /\ UNCHANGED <<symBuilder, symAdded, msfVars, exceptSyms>>

NextSymbols == AddPublicSymbol \/ AddGlobalSymbol \/ CommitSymbols

SpecSymbols == InitSymbols /\ [][NextSymbols]_vars

\* the framed record of a call of add stands in the stream at the offset
\* the call returned
AtReturnedOffset(call) ==
    LET framed == PrefixedRecord_encode(call.record)
    IN  /\ call.offset + Len(framed) <= Len(symStream)
        /\ Slice(symStream, call.offset + 1, call.offset + Len(framed)) = framed

\* the offsets at which the records of the stream start, found by walking
\* the length prefixes from position at
RECURSIVE RecordStarts(_, _)
RecordStarts(bytes, at) ==
    IF at + 2 > Len(bytes) THEN {}
    ELSE {at} \cup RecordStarts(bytes, at + 2 + FromLE(Slice(bytes, at + 1, at + 2)))

\* the stream holds every public before every global
PublicsBeforeGlobals ==
    \E split \in 0..Len(symStream) :
        /\ Take(symStream, split) = encode_records(symBuilder.publics)
        /\ Drop(symStream, split) = encode_records(symBuilder.globals)

\* C27: the symbol record stream written by commit holds all publics before
\* all globals, and the length prefix of every record starts at the byte
\* offset its add call returned.
C27_OffsetsMatchStream ==
    pc = "symbols_committed" =>
        /\ PublicsBeforeGlobals
        /\ \A k \in DOMAIN symAdded : AtReturnedOffset(symAdded[k])
        /\ RecordStarts(symStream, 0) = {symAdded[k].offset : k \in DOMAIN symAdded}

\* every public was added before every global
PublicsAddedFirst ==
    \A j, k \in DOMAIN symAdded :
        (symAdded[j].record.kind # "Public32" /\ symAdded[k].record.kind = "Public32")
            => k < j

\* C27 for the builders on which no public was added behind a global
C27_OffsetsWhenPublicsAddedFirst ==
    (pc = "symbols_committed" /\ PublicsAddedFirst) =>
        /\ PublicsBeforeGlobals
        /\ \A k \in DOMAIN symAdded : AtReturnedOffset(symAdded[k])
        /\ RecordStarts(symStream, 0) = {symAdded[k].offset : k \in DOMAIN symAdded}

(***************************************************************************)
(* The PDB info stream and the DBI stream: info.rs, dbi.rs, builders.rs    *)
(***************************************************************************)

\* PdbVersion and PdbFeature
PdbVersion_Vc70 == 20000404
PdbVersions ==
    {19941610, 19950623, 19950814, 19960307, 19970604, 19990604, PdbVersion_Vc70,
     20030901, 20091201, 20140508}
SUPPORTED_VERSIOMS == {PdbVersion_Vc70, 20030901, 20091201, 20140508}
PdbFeature_Vc140 == 20140508
PdbFeatures == {0, 20091201, PdbFeature_Vc140, 1297370958, 1229867341}

\* DbiSignature, DbiVersion, SectionContribVersion (0xeffe0000 + 19970605 and
\* 0xeffe0000 + 20140516, as bytes), MachineType, StringsSignature
DbiSignature == <<255, 255, 255, 255>>
DbiVersion_V70 == 19990903
DbiVersion_V110 == 20091201
DbiVersions == {930803, 19960307, 19970606, DbiVersion_V70, DbiVersion_V110}
SectionContribVersion_Ver60 == <<45, 186, 46, 241>>
SectionContribVersion_V2 == <<228, 81, 49, 241>>
MachineType_Amd64 == 34404
MachineTypes ==
    {65535, 0, 19, MachineType_Amd64, 448, 43620, 452, 3772, 332, 512, 36929, 614,
     870, 1126, 496, 497, 358, 418, 419, 422, 424, 450, 361}
StringsSignature == <<254, 239, 254, 239>>
DebugSectionSignature == <<4, 0, 0, 0>>

\* InfoBuilder::default, without the guid, which stays all zero
InfoBuilder_default == [signature |-> 0, age |-> 1, named_streams |-> <<>>]

\* the bytes InfoBuilder::commit writes for a builder without named
\* streams: the header, buffer_size, the table of no entries, the feature
InfoBuilder_commit(info) ==
    LE(PdbVersion_Vc70, 4) \o LE(info.signature, 4) \o LE(info.age, 4) \o Zeros(16)
        \o LE(0, 4)
        \o Table_default_encode
        \o LE(PdbFeature_Vc140, 4)

\* derived Encode of SectionContrib
SectionContrib(i_sect, size, i_mod) ==
    [i_sect |-> i_sect, offset |-> 0, size |-> size, characteristics |-> 0,
     i_mod |-> i_mod, data_crc |-> 0, reloc_crc |-> 0]
SectionContrib_encode(sc) ==
    LE(sc.i_sect, 2) \o <<0, 0>> \o LE(sc.offset, 4) \o LE(sc.size, 4)
        \o LE(sc.characteristics, 4) \o LE(sc.i_mod, 2) \o <<0, 0>>
        \o LE(sc.data_crc, 4) \o LE(sc.reloc_crc, 4)
SectionContrib_encoded_size == 2 + 2 + 4 + 4 + 4 + 2 + 2 + 4 + 4

\* derived Encode of SectionMapEntry
SectionMapEntry(frame, sec_byte_length) ==
    [flags |-> 0, logical_overlay |-> 0, group |-> 0, frame |-> frame,
     sec_name |-> 65535, class_name |-> 65535, offset |-> 0,
     sec_byte_length |-> sec_byte_length]
SectionMapEntry_encode(e) ==
    LE(e.flags, 2) \o LE(e.logical_overlay, 2) \o LE(e.group, 2) \o LE(e.frame, 2)
        \o LE(e.sec_name, 2) \o LE(e.class_name, 2) \o LE(e.offset, 4)
        \o LE(e.sec_byte_length, 4)
SectionMapEntry_encoded_size == 2 + 2 + 2 + 2 + 2 + 2 + 4 + 4

\* ModuleBuilder::new, add_source_file
ModuleBuilder(name, obj_file_name, section_contrib, source_files) ==
    [name |-> name, obj_file_name |-> obj_file_name,
     section_contrib |-> section_contrib, source_files |-> source_files]

\* Module::write for a module without symbols and debug entries: the
\* signature and the empty global references; the layout it returns
Module_write_empty ==
    [bytes  |-> DebugSectionSignature \o LE(0, 4),
     layout |-> [sym_bytes |-> 4, c11_bytes |-> 0, c13_bytes |-> 0]]

\* the sink with the bytes written so far evaluated to one tuple, so that
\* a byte is not looked up through every write made before
flushed(s) == [data |-> SubSeq(s.data, 1, Len(s.data)), pos |-> s.pos]

\* ModuleBuilder::commit: the module stream is written and allocated, the
\* DbiModule of the module returned
ModuleBuilder_commit(m, s, streams) ==
    LET module == Module_write_empty
        r      == write_stream(s, module.bytes)
    IN  [s       |-> flushed(r.s),
         streams |-> allocate(streams, r.layout),
         res     |-> [header |-> [module            |-> 0,
                                  section_contrib   |-> m.section_contrib,
                                  flags             |-> 0,
                                  type_server_index |-> 0,
                                  debug_info_stream |-> Len(streams),
                                  layout            |-> module.layout,
                                  num_files         |-> Len(m.source_files),
                                  file_names_offs   |-> 0,
                                  src_file_name_ni  |-> 0,
                                  pdb_file_path_ni  |-> 0],
                      module_name   |-> m.name,
                      obj_file_name |-> m.obj_file_name],
         names   |-> m.source_files]

\* derived Encode and EncodedSize of ModuleInfoHeader and DbiModule
ModuleInfoHeader_encode(h) ==
    LE(h.module, 4) \o SectionContrib_encode(h.section_contrib)
        \o <<h.flags, h.type_server_index>> \o LE(h.debug_info_stream, 2)
        \o LE(h.layout.sym_bytes, 4) \o LE(h.layout.c11_bytes, 4)
        \o LE(h.layout.c13_bytes, 4)
        \o LE(h.num_files, 2) \o <<0, 0>>
        \o LE(h.file_names_offs, 4) \o LE(h.src_file_name_ni, 4)
        \o LE(h.pdb_file_path_ni, 4)
ModuleInfoHeader_encoded_size ==
    4 + SectionContrib_encoded_size + 1 + 1 + 2 + (4 + 4 + 4) + 2 + 2 + 4 + 4 + 4
DbiModule_encode(m) ==
    ModuleInfoHeader_encode(m.header) \o StrBuf_encode(m.module_name)
        \o StrBuf_encode(m.obj_file_name)
DbiModule_encoded_size(m) ==
    ModuleInfoHeader_encoded_size + StrBuf_encoded_size(m.module_name)
        + StrBuf_encoded_size(m.obj_file_name)

\* codecs::padded_rem_list::encode of the modules
RECURSIVE padded_rem_list_encode_modules(_)
padded_rem_list_encode_modules(elems) ==
    IF elems = <<>> THEN <<>>
    ELSE LET size    == DbiModule_encoded_size(elems[1])
             padding == RECORD_ALIGNMENT - (size % RECORD_ALIGNMENT)
         IN  DbiModule_encode(elems[1])
                 \o (IF padding # 0
                     THEN <<BitOr(padding, 15)>> \o Zeros(padding - 1)
                     ELSE <<>>)
                 \o padded_rem_list_encode_modules(Tail(elems))

\* codecs::padded_rem_list::encoded_size of the modules
padded_rem_list_encoded_size_modules(elems) ==
    LET RECURSIVE go(_, _)
        go(es, size) ==
            IF es = <<>> THEN size
            ELSE go(Tail(es),
                    align_to(size + DbiModule_encoded_size(es[1]), RECORD_ALIGNMENT))
    IN  go(elems, 0)

\* derived Encode and EncodedSize of Strings
Strings_encode(st) ==
    StringsSignature \o LE(1, 4)
        \o LE(Len(st.bytes), 4) \o st.bytes
        \o LE(Len(st.ids), 4) \o encode_u32s(st.ids)
        \o LE(st.name_count, 4)
Strings_encoded_size(st) ==
    4 + 4 + (4 + Len(st.bytes)) + (4 + 4 * Len(st.ids)) + 4

\* impl Default for DbiBuilder: no symbols and no section headers are added
\* to the builders of this model
DbiBuilder_default ==
    [age |-> 0, modules |-> <<>>, section_entries |-> <<>>,
     names |-> StringsBuilder_default, debug_streams |-> <<>>]

\* derived Encode of DbiHeader. BuildNumber is major 14, minor 11 and
\* is_new_format in the top bit
BuildNumber_new == 11 + 14 * 256 + 32768
DbiHeader_encode(h) ==
    DbiSignature \o LE(h.version, 4) \o LE(h.age, 4)
        \o LE(h.global_symbol_stream_index, 2) \o LE(h.build_number, 2)
        \o LE(h.public_symbol_stream_index, 2) \o LE(h.dll_version, 2)
        \o LE(h.sym_record_stream_index, 2) \o LE(h.rbld, 2)
        \o LE(h.modi_stream_size, 4) \o LE(h.sec_contr_stream_size, 4)
        \o LE(h.section_map_size, 4) \o LE(h.file_info_size, 4)
        \o LE(h.type_server_size, 4) \o LE(h.mfc_type_server_index, 4)
        \o LE(h.optional_db_header_size, 4) \o LE(h.ec_stream_size, 4)
        \o LE(h.flags, 2) \o LE(h.machine_type, 2) \o Zeros(4)
DbiHeader_BYTE_SIZE == 4 + 4 + 4 + 2 + 2 + 2 + 2 + 2 + 2 + 8 * 4 + 2 + 2 + 4

\* the loop of DbiBuilder::commit over the modules
RECURSIVE commit_modules(_, _, _)
commit_modules(builders, s, streams) ==
    IF builders = <<>>
    THEN [s |-> s, streams |-> streams, modules |-> <<>>, files |-> <<>>,
          section_contribs |-> <<>>]
    ELSE LET one  == ModuleBuilder_commit(builders[1], s, streams)
             rest == commit_modules(Tail(builders), one.s, one.streams)
         IN  [rest EXCEPT
                 !.modules = <<one.res>> \o @,
                 !.files   = <<one.names>> \o @,
                 !.section_contribs = <<builders[1].section_contrib>> \o @]

\* files.iter().flatten()
RECURSIVE flatten(_)
flatten(lists) == IF lists = <<>> THEN <<>> ELSE lists[1] \o flatten(Tail(lists))

\* the sum of name.len() + 1
RECURSIVE names_size(_)
names_size(names) ==
    IF names = <<>> THEN 0 ELSE Len(names[1]) + 1 + names_size(Tail(names))

\* the offsets written for the file names: the running sum of len + 1
file_name_offsets(names) ==
    [k \in DOMAIN names |-> names_size(SubSeq(names, 1, k - 1))]

\* one encoding after the other, as the loops over the elements write them
concat_encoded(elems, enc(_)) == flatten([k \in DOMAIN elems |-> enc(elems[k])])

encode_u16s(vals) == concat_encoded(vals, LAMBDA v : LE(v, 2))
encode_names(names) == concat_encoded(names, LAMBDA n : n \o <<0>>)

\* DbiBuilder::commit, the DbiHeader it builds: modules are the DbiModules
\* the commits of the modules returned, files the names of all source files
DbiBuilder_header(dbi, modules, files, names, debug_streams) ==
    [version                    |-> DbiVersion_V70,
     age                        |-> dbi.age,
     global_symbol_stream_index |-> STREAM_INDEX_NONE,
     build_number               |-> BuildNumber_new,
     public_symbol_stream_index |-> STREAM_INDEX_NONE,
     dll_version                |-> 0,
     sym_record_stream_index    |-> STREAM_INDEX_NONE,
     rbld                       |-> 0,
     modi_stream_size      |-> padded_rem_list_encoded_size_modules(modules),
     sec_contr_stream_size |-> 2 * 2 + Len(modules) * SectionContrib_encoded_size,
     section_map_size      |->
         2 * 2 + Len(dbi.section_entries) * SectionMapEntry_encoded_size,
     file_info_size        |->
         (2 * 2 + Len(dbi.modules) * 4 + Len(files) * 4) + names_size(files),
     type_server_size      |-> 0,
     mfc_type_server_index |-> 0,
     optional_db_header_size |-> 2 * Len(debug_streams),
     ec_stream_size        |-> Strings_encoded_size(names),
     flags                 |-> 0,
     machine_type          |-> MachineType_Amd64]

\* DbiBuilder::commit, the bytes it writes behind the header, substream by
\* substream
DbiBuilder_parts(dbi, modules, section_contribs, files, names, debug_streams) ==
    [modi        |-> padded_rem_list_encode_modules(modules),
     sec_contr   |-> SectionContribVersion_Ver60
                        \o concat_encoded(section_contribs, SectionContrib_encode),
     section_map |-> LE(Len(dbi.section_entries), 2) \o LE(Len(dbi.section_entries), 2)
                        \o concat_encoded(dbi.section_entries, SectionMapEntry_encode),
     file_info   |-> LE(Len(modules), 2) \o LE(Len(files), 2)
                        \o encode_u16s([k \in DOMAIN modules |-> k - 1])
                        \o encode_u16s([k \in DOMAIN modules |-> modules[k].header.num_files])
                        \o encode_u32s(file_name_offsets(files))
                        \o encode_names(files),
     type_server |-> <<>>,
     ec          |-> Strings_encode(names),
     optional_db |-> encode_u16s(debug_streams)]

DbiBuilder_commit_finish(committed, header, parts, r) ==
    [s |-> flushed(r.s), streams |-> committed.streams, layout |-> r.layout,
     header |-> header, parts |-> parts]

DbiBuilder_commit_write(committed, header, parts) ==
    DbiBuilder_commit_finish(
        committed, header, parts,
        write_stream(committed.s,
                     DbiHeader_encode(header) \o parts.modi \o parts.sec_contr
                         \o parts.section_map \o parts.file_info \o parts.type_server
                         \o parts.ec \o parts.optional_db))

DbiBuilder_commit_stream(dbi, committed, files, names, debug_streams) ==
    DbiBuilder_commit_write(
        committed,
        DbiBuilder_header(dbi, committed.modules, files, names, debug_streams),
        DbiBuilder_parts(dbi, committed.modules, committed.section_contribs, files,
                         names, debug_streams))

DbiBuilder_commit_modules(dbi, committed) ==
    DbiBuilder_commit_stream(
        dbi, committed, flatten(committed.files),
        CHOOSE built \in StringsBuilder_build(dbi.names) : TRUE,
        dbi.debug_streams
            \o [k \in 1..11 |-> STREAM_INDEX_NONE])

\* DbiBuilder::commit: the streams of the modules, then the DBI stream. The
\* header and the bytes written behind it for each substream are returned
\* beside the sink, the allocator and the layout.
DbiBuilder_commit(dbi, s, streams) ==
    DbiBuilder_commit_modules(dbi, commit_modules(dbi.modules, s, streams))

\* ---------------------------------------------------------------------
\* DbiStream::read
\* ---------------------------------------------------------------------

\* derived Decode of DbiHeader: the signature must match, version and
\* machine_type must be variants of their enums
DbiHeader_decode(bs) ==
    IF Len(bs) < 4 THEN Err("UnexpectedEof")
    ELSE IF Take(bs, 4) # DbiSignature THEN Err("magic bytes")
    ELSE IF Len(bs) < 8 THEN Err("UnexpectedEof")
    ELSE IF u32_value(Slice(bs, 5, 8)) \notin DbiVersions THEN Err("InvalidBitPattern")
    ELSE IF Len(bs) < DbiHeader_BYTE_SIZE THEN Err("UnexpectedEof")
    ELSE LET u32_at(k) == u32_value(Slice(bs, k + 1, k + 4))
             u16_at(k) == FromLE(Slice(bs, k + 1, k + 2))
         IN  IF u16_at(58) \notin MachineTypes THEN Err("InvalidBitPattern")
             ELSE Ok([version                    |-> u32_at(4),
                      age                        |-> u32_at(8),
                      global_symbol_stream_index |-> u16_at(12),
                      build_number               |-> u16_at(14),
                      public_symbol_stream_index |-> u16_at(16),
                      dll_version                |-> u16_at(18),
                      sym_record_stream_index    |-> u16_at(20),
                      rbld                       |-> u16_at(22),
                      modi_stream_size           |-> u32_at(24),
                      sec_contr_stream_size      |-> u32_at(28),
                      section_map_size           |-> u32_at(32),
                      file_info_size             |-> u32_at(36),
                      type_server_size           |-> u32_at(40),
                      mfc_type_server_index      |-> u32_at(44),
                      optional_db_header_size    |-> u32_at(48),
                      ec_stream_size             |-> u32_at(52),
                      flags                      |-> u16_at(56),
                      machine_type               |-> u16_at(58)],
                     DbiHeader_BYTE_SIZE)

\* derived Decode of SectionContrib
SectionContrib_decode(bs) ==
    IF Len(bs) < SectionContrib_encoded_size THEN Err("UnexpectedEof")
    ELSE Ok([i_sect          |-> FromLE(Slice(bs, 1, 2)),
             offset          |-> u32_value(Slice(bs, 5, 8)),
             size            |-> u32_value(Slice(bs, 9, 12)),
             characteristics |-> u32_value(Slice(bs, 13, 16)),
             i_mod           |-> FromLE(Slice(bs, 17, 18)),
             data_crc        |-> u32_value(Slice(bs, 21, 24)),
             reloc_crc       |-> u32_value(Slice(bs, 25, 28))],
            SectionContrib_encoded_size)

\* derived Decode of DbiModule: the header, then the two names
DbiModule_decode_names(bs, header, name) ==
    IF name.tag # "ok" THEN name
    ELSE LET obj == StrBuf_decode(Drop(bs, ModuleInfoHeader_encoded_size + name.consumed))
         IN  IF obj.tag # "ok" THEN obj
             ELSE Ok([header |-> header, module_name |-> name.value,
                      obj_file_name |-> obj.value],
                     ModuleInfoHeader_encoded_size + name.consumed + obj.consumed)

DbiModule_decode(bs) ==
    IF Len(bs) < ModuleInfoHeader_encoded_size THEN Err("UnexpectedEof")
    ELSE DbiModule_decode_names(
             bs,
             [module            |-> u32_value(Slice(bs, 1, 4)),
              section_contrib   |-> SectionContrib_decode(Slice(bs, 5, 32)).value,
              flags             |-> bs[33],
              type_server_index |-> bs[34],
              debug_info_stream |-> FromLE(Slice(bs, 35, 36)),
              layout            |-> [sym_bytes |-> u32_value(Slice(bs, 37, 40)),
                                     c11_bytes |-> u32_value(Slice(bs, 41, 44)),
                                     c13_bytes |-> u32_value(Slice(bs, 45, 48))],
              num_files         |-> FromLE(Slice(bs, 49, 50)),
              file_names_offs   |-> u32_value(Slice(bs, 53, 56)),
              src_file_name_ni  |-> u32_value(Slice(bs, 57, 60)),
              pdb_file_path_ni  |-> u32_value(Slice(bs, 61, 64))],
             StrBuf_decode(Drop(bs, ModuleInfoHeader_encoded_size)))

\* codecs::padded_rem_list::decode of the modules, buf being what
\* read_to_end returned
RECURSIVE padded_rem_list_decode_modules(_)
padded_rem_list_decode_behind(slice, elem) ==
    IF elem.tag # "ok" THEN elem
    ELSE LET read    == elem.consumed
             padding == IF read % RECORD_ALIGNMENT # 0
                        THEN RECORD_ALIGNMENT - (read % RECORD_ALIGNMENT) ELSE 0
         IN  IF read + padding > Len(slice)
             THEN Panic("range start index out of range")
             ELSE prepend_record(elem, read + padding,
                      padded_rem_list_decode_modules(Drop(slice, read + padding)))

padded_rem_list_decode_modules(slice) ==
    IF slice = <<>> THEN Ok(<<>>, 0)
    ELSE padded_rem_list_decode_behind(slice, DbiModule_decode(slice))

\* the loop of DbiStream::read over the Take of sec_contr_stream_size
RECURSIVE read_section_contribs(_, _)
read_section_contribs_behind(window, v2, sc) ==
    IF sc.tag # "ok" THEN sc
    ELSE IF v2 /\ Len(window) < sc.consumed + 4 THEN Err("UnexpectedEof")
    ELSE prepend_record(sc, sc.consumed + (IF v2 THEN 4 ELSE 0),
             read_section_contribs(Drop(window, sc.consumed + (IF v2 THEN 4 ELSE 0)), v2))

read_section_contribs(window, v2) ==
    IF window = <<>> THEN Ok(<<>>, 0)
    ELSE read_section_contribs_behind(window, v2, SectionContrib_decode(window))

\* derived Decode of SectionMap; of the entries the count is kept
SectionMap_decode(bs) ==
    IF Len(bs) < 4 THEN Err("UnexpectedEof")
    ELSE LET sec_count == FromLE(Take(bs, 2))
         IN  IF Len(bs) < 4 + sec_count * SectionMapEntry_encoded_size
             THEN Err("UnexpectedEof")
             ELSE Ok([sec_count |-> sec_count, sec_count_log |-> FromLE(Slice(bs, 3, 4)),
                      entries |-> [k \in 1..sec_count |->
                          LET at == 4 + (k - 1) * SectionMapEntry_encoded_size
                          IN  [flags           |-> FromLE(Slice(bs, at + 1, at + 2)),
                               logical_overlay |-> FromLE(Slice(bs, at + 3, at + 4)),
                               group           |-> FromLE(Slice(bs, at + 5, at + 6)),
                               frame           |-> FromLE(Slice(bs, at + 7, at + 8)),
                               sec_name        |-> FromLE(Slice(bs, at + 9, at + 10)),
                               class_name      |-> FromLE(Slice(bs, at + 11, at + 12)),
                               offset          |-> u32_value(Slice(bs, at + 13, at + 16)),
                               sec_byte_length |-> u32_value(Slice(bs, at + 17, at + 20))]]],
                     4 + sec_count * SectionMapEntry_encoded_size)

\* derived Decode of FileInfo
FileInfo_decode(bs) ==
    IF Len(bs) < 4 THEN Err("UnexpectedEof")
    ELSE LET num_modules      == FromLE(Take(bs, 2))
             num_source_files == FromLE(Slice(bs, 3, 4))
             size == 4 + 4 * num_modules + 4 * num_source_files
         IN  IF Len(bs) < size THEN Err("UnexpectedEof")
             ELSE Ok([num_modules |-> num_modules,
                      num_source_files |-> num_source_files,
                      module_indicies |->
                          [k \in 1..num_modules |-> FromLE(Slice(bs, 3 + 2 * k, 4 + 2 * k))],
                      module_file_counts |->
                          [k \in 1..num_modules |->
                              FromLE(Slice(bs, 3 + 2 * num_modules + 2 * k,
                                           4 + 2 * num_modules + 2 * k))],
                      file_name_offsets |->
                          [k \in 1..num_source_files |->
                              u32_value(Slice(bs, 1 + 4 * num_modules + 4 * k,
                                              4 + 4 * num_modules + 4 * k))]],
                     size)

\* derived Decode of Strings
Strings_decode(bs) ==
    IF Len(bs) < 4 THEN Err("UnexpectedEof")
    ELSE IF Take(bs, 4) # StringsSignature THEN Err("magic bytes")
    ELSE IF Len(bs) < 8 THEN Err("UnexpectedEof")
    ELSE IF u32_value(Slice(bs, 5, 8)) \notin {1, 2} THEN Err("InvalidBitPattern")
    ELSE IF Len(bs) < 12 THEN Err("UnexpectedEof")
    ELSE LET len == u32_value(Slice(bs, 9, 12))
         IN  IF Len(bs) - 12 < len \/ Len(bs) - 12 - len < 4 THEN Err("UnexpectedEof")
             ELSE LET count == u32_value(Slice(bs, 13 + len, 16 + len))
                  IN  IF count >= U32_HUGE \div 4 \/ Len(bs) - 16 - len < 4 * count + 4
                      THEN Err("UnexpectedEof")
                      ELSE Ok([hash_version |-> IF FromLE(Slice(bs, 5, 8)) = 1
                                                THEN "V1" ELSE "V2",
                               bytes |-> Slice(bs, 13, 12 + len),
                               ids   |-> [k \in 1..count |->
                                            u32_value(Slice(bs, 13 + len + 4 * k,
                                                            16 + len + 4 * k))],
                               name_count |-> u32_value(Slice(bs, 17 + len + 4 * count,
                                                              20 + len + 4 * count))],
                              20 + len + 4 * count)

\* DbiStream::read, from its end to its start: each step is given what the
\* steps before it decoded and the bytes left in the reader. dbg tells
\* whether the build has debug assertions.
DbiStream_read_dbg_streams(dbi, rest) ==
    LET dbg_stream_count == dbi.header.optional_db_header_size \div 2
    IN  IF Len(rest) < 2 * dbg_stream_count THEN Err("UnexpectedEof")
        ELSE Ok([dbi EXCEPT !.dbg_streams =
                    [k \in 1..dbg_stream_count |-> FromLE(Slice(rest, 2 * k - 1, 2 * k))]],
                0)

DbiStream_read_ec_stream(dbi, rest, ec_stream) ==
    IF ec_stream.tag # "ok" THEN ec_stream
    ELSE DbiStream_read_dbg_streams([dbi EXCEPT !.ec_stream = ec_stream.value],
                                    Drop(rest, ec_stream.consumed))

DbiStream_read_type_server(dbi, rest) ==
    IF Len(rest) < dbi.header.type_server_size THEN Err("UnexpectedEof")
    ELSE DbiStream_read_ec_stream(
             [dbi EXCEPT !.type_server_stream = Take(rest, dbi.header.type_server_size)],
             Drop(rest, dbi.header.type_server_size),
             Strings_decode(Drop(rest, dbi.header.type_server_size)))

DbiStream_read_file_names(dbi, rest, dbg, file_info_stream, file_info) ==
    IF file_info.tag # "ok" THEN file_info
    ELSE IF dbg /\ dbi.header.file_info_size # Len(file_info_stream)
    THEN Panic("assertion failed: file_info_stream.limit() == 0")
    ELSE DbiStream_read_type_server(
             [dbi EXCEPT !.file_info  = file_info.value,
                         !.file_names = Drop(file_info_stream, file_info.consumed)],
             Drop(rest, Len(file_info_stream)))

DbiStream_read_file_info(dbi, rest, dbg) ==
    DbiStream_read_file_names(dbi, rest, dbg, Take(rest, dbi.header.file_info_size),
                              FileInfo_decode(Take(rest, dbi.header.file_info_size)))

DbiStream_read_sec_map(dbi, rest, dbg, sec_map) ==
    IF sec_map.tag # "ok" THEN sec_map
    ELSE IF dbg /\ dbi.header.section_map_size # sec_map.consumed
    THEN Panic("assertion failed: sec_map_stream.limit() == 0")
    ELSE DbiStream_read_file_info([dbi EXCEPT !.sec_map = sec_map.value],
                                  Drop(rest, sec_map.consumed), dbg)

DbiStream_read_contribs(dbi, rest, dbg, sect_contr_stream, section_contribs) ==
    IF section_contribs.tag # "ok" THEN section_contribs
    ELSE IF Len(sect_contr_stream) < dbi.header.sec_contr_stream_size
    THEN Err("UnexpectedEof")
    ELSE DbiStream_read_sec_map(
             [dbi EXCEPT !.section_contribs = section_contribs.value],
             Drop(rest, Len(sect_contr_stream)), dbg,
             SectionMap_decode(Take(Drop(rest, Len(sect_contr_stream)),
                                    dbi.header.section_map_size)))

DbiStream_read_contrib_version(dbi, rest, dbg, sect_contr_stream) ==
    IF Len(sect_contr_stream) < 4 THEN Err("UnexpectedEof")
    ELSE IF Take(sect_contr_stream, 4)
                \notin {SectionContribVersion_Ver60, SectionContribVersion_V2}
    THEN Err("InvalidBitPattern")
    ELSE DbiStream_read_contribs(
             dbi, rest, dbg, sect_contr_stream,
             read_section_contribs(Drop(sect_contr_stream, 4),
                                   Take(sect_contr_stream, 4) = SectionContribVersion_V2))

DbiStream_read_modules(header, rest, dbg, modi_stream, modules) ==
    IF modules.tag # "ok" THEN modules
    ELSE DbiStream_read_contrib_version(
             [header |-> header, modules |-> modules.value, section_contribs |-> <<>>,
              sec_map |-> <<>>, file_info |-> <<>>, file_names |-> <<>>,
              type_server_stream |-> <<>>, ec_stream |-> <<>>, dbg_streams |-> <<>>],
             Drop(rest, Len(modi_stream)), dbg,
             Take(Drop(rest, Len(modi_stream)), header.sec_contr_stream_size))

DbiStream_read_behind(header, input, dbg) ==
    IF header.tag # "ok" THEN header
    ELSE IF header.value.version \notin {DbiVersion_V70, DbiVersion_V110}
    THEN Err("UnsupportedFeature")
    ELSE DbiStream_read_modules(
             header.value, Drop(input, header.consumed), dbg,
             Take(Drop(input, header.consumed), header.value.modi_stream_size),
             padded_rem_list_decode_modules(
                 Take(Drop(input, header.consumed), header.value.modi_stream_size)))

DbiStream_read(input, dbg) == DbiStream_read_behind(DbiHeader_decode(input), input, dbg)

\* ---------------------------------------------------------------------
\* PdbInfo::read
\* ---------------------------------------------------------------------

\* derived Decode of PdbInfoHeader: the version must be a variant of
\* PdbVersion
PdbInfoHeader_BYTE_SIZE == 4 + 4 + 4 + 16
PdbInfoHeader_decode(bs) ==
    IF Len(bs) < 4 THEN Err("UnexpectedEof")
    ELSE IF u32_value(Take(bs, 4)) \notin PdbVersions THEN Err("InvalidBitPattern")
    ELSE IF Len(bs) < PdbInfoHeader_BYTE_SIZE THEN Err("UnexpectedEof")
    ELSE Ok([version   |-> u32_value(Take(bs, 4)),
             signature |-> u32_value(Slice(bs, 5, 8)),
             age       |-> u32_value(Slice(bs, 9, 12)),
             guid      |-> Slice(bs, 13, 28)],
            PdbInfoHeader_BYTE_SIZE)

\* derived Decode of hash::BitVector: the number of bytes it takes
BitVector_decode(bs) ==
    IF Len(bs) < 4 THEN Err("UnexpectedEof")
    ELSE LET words == u32_value(Take(bs, 4))
         IN  IF words >= U32_HUGE \div 4 \/ Len(bs) - 4 < 4 * words
             THEN Err("UnexpectedEof")
             ELSE Ok(Slice(bs, 5, 4 + 4 * words), 4 + 4 * words)

\* derived Decode of NamedStreams: name_buffer, then the Table with size,
\* cap, present, deleted and size entries of two u32
NamedStreams_decode_entries(bs, name_buffer, size, at) ==
    IF size >= U32_HUGE \div 8 \/ Len(bs) - at < 8 * size THEN Err("UnexpectedEof")
    ELSE Ok([name_buffer |-> name_buffer,
             entries |-> [k \in 1..size |->
                 <<u32_value(Slice(bs, at + 8 * k - 7, at + 8 * k - 4)),
                   u32_value(Slice(bs, at + 8 * k - 3, at + 8 * k))>>]],
            at + 8 * size)

NamedStreams_decode_deleted(bs, name_buffer, size, at, deleted) ==
    IF deleted.tag # "ok" THEN deleted
    ELSE NamedStreams_decode_entries(bs, name_buffer, size, at + deleted.consumed)

NamedStreams_decode_present(bs, name_buffer, size, at, present) ==
    IF present.tag # "ok" THEN present
    ELSE NamedStreams_decode_deleted(bs, name_buffer, size, at + present.consumed,
                                     BitVector_decode(Drop(bs, at + present.consumed)))

NamedStreams_decode(bs) ==
    IF Len(bs) < 4 THEN Err("UnexpectedEof")
    ELSE LET len == u32_value(Take(bs, 4))
         IN  IF Len(bs) - 4 < len \/ Len(bs) - 4 - len < 8 THEN Err("UnexpectedEof")
             ELSE NamedStreams_decode_present(
                      bs, Slice(bs, 5, 4 + len),
                      u32_value(Slice(bs, 5 + len, 8 + len)), 12 + len,
                      BitVector_decode(Drop(bs, 12 + len)))

\* codecs::padded_rem_list::decode of the features: u32 values to the end
\* of the stream, each a variant of PdbFeature
RECURSIVE padded_rem_list_decode_features(_)
padded_rem_list_decode_features(slice) ==
    IF slice = <<>> THEN Ok(<<>>, 0)
    ELSE IF Len(slice) < 4 THEN Err("UnexpectedEof")
    ELSE IF u32_value(Take(slice, 4)) \notin PdbFeatures THEN Err("InvalidBitPattern")
    ELSE prepend_record(Ok(u32_value(Take(slice, 4)), 4), 4,
                        padded_rem_list_decode_features(Drop(slice, 4)))

PdbInfo_read_features(header, named_streams, features) ==
    IF features.tag # "ok" THEN features
    ELSE Ok([header |-> header, named_streams |-> named_streams,
             features |-> features.value], 0)

PdbInfo_read_named_streams(header, input, named_streams) ==
    IF named_streams.tag # "ok" THEN named_streams
    ELSE PdbInfo_read_features(
             header, named_streams.value,
             padded_rem_list_decode_features(
                 Drop(input, PdbInfoHeader_BYTE_SIZE + named_streams.consumed)))

PdbInfo_read_behind(header, input) ==
    IF header.tag # "ok" THEN header
    ELSE IF header.value.version \notin SUPPORTED_VERSIOMS
    THEN Err("UnsupportedFeature")
    ELSE PdbInfo_read_named_streams(header.value, input,
                                    NamedStreams_decode(Drop(input, header.consumed)))

PdbInfo_read(input) == PdbInfo_read_behind(PdbInfoHeader_decode(input), input)

\* ---------------------------------------------------------------------
\* PdbBuilder: the builder methods, commit, and the file opened again
\* ---------------------------------------------------------------------

\* impl Default for PdbBuilder
PdbBuilder_default ==
    [info |-> InfoBuilder_default, dbi |-> DbiBuilder_default,
     tpi |-> TypeStreamBuilder_default, ipi |-> TypeStreamBuilder_default]

\* TypeStreamBuilder::commit on the sink: the hash stream is written and
\* allocated, then the type stream
commit_type_stream(b, s, streams) ==
    LET c  == TypeStreamBuilder_commit(b, Len(streams))
        rh == write_stream(s, c.hash_bytes)
        r  == write_stream(flushed(rh.s), c.type_bytes)
    IN  [s |-> flushed(r.s), streams |-> allocate(streams, rh.layout),
         layout |-> r.layout]

\* the end of PdbBuilder::commit: insert_builtin, the directory, the address
\* map, num_blocks, the free block map and the super-block
commit_directory(streams, s) ==
    LET directory == write_stream(s, directory_bytes(streams))
        addr_map  == write_stream(flushed(directory.s),
                                  encode_u32s(directory.layout.blocks))
        all       == allocate(allocate(streams, directory.layout), addr_map.layout)
        allocated_blocks == block_count(all) + 1
        fpm_gap_size     == BLOCK_SIZE - 2
        num_blocks == allocated_blocks + (1 + allocated_blocks \div fpm_gap_size) * 2
        main == [block_size           |-> BLOCK_SIZE,
                 free_block_map_block |-> 1,
                 num_blocks           |-> num_blocks,
                 num_dir_bytes        |-> directory.layout.byte_size,
                 unknown              |-> 0,
                 block_map_addr       |-> addr_map.layout.blocks[1]]
    IN  [s |-> seek(flushed(FreeBlockMap_write(main, flushed(addr_map.s))), 0),
         streams |-> all, main |-> main]

\* PdbFile::get_info and PdbFile::get_dbi: the stream is looked up and read
\* by PdbInfo::read and DbiStream::read
\* The reader PdbInfo::read and DbiStream::read are given, as the bytes it
\* yields: <MsfStream as io::Read>::read called until it returns 0. Block k
\* yields wanted(k) bytes unless the file ends before; the stream ends at the
\* first block that yields fewer, and a block missing from the layout
\* panics.
stream_bytes(file, layout, block_size) ==
    LET count == IF layout.byte_size >= U32_HUGE - block_size
                 THEN Len(layout.blocks) + 1
                 ELSE div_ceil(layout.byte_size, block_size)
        wanted(k) == Min(block_size, layout.byte_size - (k - 1) * block_size)
        raw(k) == to_file_pos(layout.blocks[k], block_size)
        read(k) == IF raw(k) >= Len(file) THEN 0 ELSE Min(wanted(k), Len(file) - raw(k))
        short == {k \in 1..Min(count, Len(layout.blocks)) : read(k) < wanted(k)}
        last  == IF short = {} THEN Min(count, Len(layout.blocks))
                 ELSE CHOOSE k \in short : \A j \in short : k <= j
        total == IF short = {} THEN last * block_size - (block_size - wanted(last))
                 ELSE (last - 1) * block_size + read(last)
    IN  IF count = 0 THEN Ok(<<>>, 0)
        ELSE IF short = {} /\ count > Len(layout.blocks) THEN Panic("index out of bounds")
        ELSE Ok([i \in 1..total |->
                    file[raw((i - 1) \div block_size + 1) + ((i - 1) % block_size) + 1]],
                total)

stream_input(file, pdb, index) ==
    IF index >= Len(pdb.layouts) THEN Err("StreamNotFound")
    ELSE stream_bytes(file, pdb.layouts[index + 1], pdb.block_size)

get_info_from(input) == IF input.tag # "ok" THEN input ELSE PdbInfo_read(input.value)
get_info(file, pdb) == get_info_from(stream_input(file, pdb, BuiltinStream_Pdb))

get_dbi_from(input, dbg) ==
    IF input.tag # "ok" THEN input ELSE DbiStream_read(input.value, dbg)
get_dbi(file, pdb, dbg) == get_dbi_from(stream_input(file, pdb, BuiltinStream_Dbi), dbg)

\* the calls made on the builders: ages set, modules whose DbiModule takes
\* 68 and 71 bytes, a section map entry, a type record
MaxPdbModules == 2
MaxSectionEntries == 1
MaxPdbTypes == 1
PdbAges == {1, 2, 258}
PdbModules ==
    {ModuleBuilder(<<109>>, <<111>>, SectionContrib(1, 16, 0), <<>>),
     ModuleBuilder(<<109, 50>>, <<111, 98, 106>>, SectionContrib(1, 32, 1), <<<<102>>>>)}

InitPdb ==
    /\ pc = "pdb_builder"
    /\ pdbBuilder = PdbBuilder_default
    /\ pdbRead = <<>>
    /\ IdleEarly /\ IdleMsf /\ IdleSeek /\ IdleSyms /\ IdleVer

\* InfoBuilder::age
InfoAge ==
    /\ pc = "pdb_builder"
    /\ \E age \in PdbAges : pdbBuilder' = [pdbBuilder EXCEPT !.info.age = age]
    /\ UNCHANGED <<pc, pdbRead, msfVars, exceptPdb>>

\* DbiBuilder::add_module
DbiAddModule ==
    /\ pc = "pdb_builder"
    /\ Len(pdbBuilder.dbi.modules) < MaxPdbModules
    /\ \E module \in PdbModules :
           pdbBuilder' = [pdbBuilder EXCEPT !.dbi.modules = Append(@, module)]
    /\ UNCHANGED <<pc, pdbRead, msfVars, exceptPdb>>

\* DbiBuilder::add_section_entry
DbiAddSectionEntry ==
    /\ pc = "pdb_builder"
    /\ Len(pdbBuilder.dbi.section_entries) < MaxSectionEntries
    /\ pdbBuilder' = [pdbBuilder EXCEPT
                         !.dbi.section_entries = Append(@, SectionMapEntry(1, 16))]
    /\ UNCHANGED <<pc, pdbRead, msfVars, exceptPdb>>

\* TpiBuilder::add
TpiAdd ==
    /\ pc = "pdb_builder"
    /\ Len(pdbBuilder.tpi.records) < MaxPdbTypes
    /\ pdbBuilder' = [pdbBuilder EXCEPT
           !.tpi = TypeStreamBuilder_add(@, <<65>>, Modifier(116, 1)).builder]
    /\ UNCHANGED <<pc, pdbRead, msfVars, exceptPdb>>

\* PdbBuilder::commit on an empty sink, statement by statement: the three
\* leading blocks and info.commit, dbi.commit with the age of info,
\* tpi.commit, ipi.commit, insert_builtin and the rest. The DBI header and
\* the bytes written for each of its substreams are kept in pdbRead.
PdbCommit ==
    /\ pc = "pdb_builder"
    /\ \E info \in {write_stream(
                        write_all(write_all(write_all([data |-> <<>>, pos |-> 0],
                                                      EMPTY_BLOCK), FULL_BLOCK), FULL_BLOCK),
                        InfoBuilder_commit(pdbBuilder.info))} :
       \E dbi \in {DbiBuilder_commit([pdbBuilder.dbi EXCEPT !.age = pdbBuilder.info.age],
                                     flushed(info.s), StreamAllocator_default)} :
       \E tpi \in {commit_type_stream(pdbBuilder.tpi, dbi.s, dbi.streams)} :
       \E ipi \in {commit_type_stream(pdbBuilder.ipi, tpi.s, tpi.streams)} :
       \E r \in {commit_directory(
                     insert_builtin(insert_builtin(insert_builtin(insert_builtin(
                         ipi.streams,
                         BuiltinStream_Pdb, info.layout),
                         BuiltinStream_Dbi, dbi.layout),
                         BuiltinStream_Tpi, tpi.layout),
                         BuiltinStream_Ipi, ipi.layout),
                     ipi.s)} :
           /\ sink' = r.s
           /\ allocator' = r.streams
           /\ superblock' = r.main
           /\ pdbRead' = [header |-> dbi.header, parts |-> dbi.parts]
    /\ pc' = "pdb_committed"
    /\ UNCHANGED <<pdbBuilder, builtin, written, pdbFile, readback, exceptPdb>>

\* PdbFile::open on the committed file, then get_info and get_dbi, in a
\* build with or without debug assertions
PdbReopen ==
    /\ pc = "pdb_committed"
    /\ \E dbg \in BOOLEAN :
        LET pdb == open(sink.data, superblock)
        IN  /\ pdbFile' = pdb
            /\ readback' = IF pdb.tag # "ok" THEN [info |-> pdb, dbi |-> pdb]
                           ELSE [info |-> get_info(sink.data, pdb),
                                 dbi  |-> get_dbi(sink.data, pdb, dbg)]
    /\ pc' = "pdb_reopened"
    /\ UNCHANGED <<pdbBuilder, pdbRead, sink, allocator, builtin, written, superblock,
                   exceptPdb>>

NextPdb ==
    \/ InfoAge \/ DbiAddModule \/ DbiAddSectionEntry \/ TpiAdd \/ PdbCommit \/ PdbReopen

SpecPdb == InitPdb /\ [][NextPdb]_vars

\* the size fields of the DBI header against the bytes commit wrote
SubstreamSizesMatch ==
    /\ pdbRead.header.modi_stream_size = Len(pdbRead.parts.modi)
    /\ pdbRead.header.sec_contr_stream_size = Len(pdbRead.parts.sec_contr)
    /\ pdbRead.header.section_map_size = Len(pdbRead.parts.section_map)
    /\ pdbRead.header.file_info_size = Len(pdbRead.parts.file_info)
    /\ pdbRead.header.type_server_size = Len(pdbRead.parts.type_server)
    /\ pdbRead.header.ec_stream_size = Len(pdbRead.parts.ec)
    /\ pdbRead.header.optional_db_header_size = Len(pdbRead.parts.optional_db)

\* DbiStream::read returned the modules, contributions, section map
\* entries and file names the builder held
SubstreamsFound ==
    /\ readback.dbi.tag = "ok"
    /\ Len(readback.dbi.value.modules) = Len(pdbBuilder.dbi.modules)
    /\ \A k \in DOMAIN pdbBuilder.dbi.modules :
          /\ readback.dbi.value.modules[k].module_name = pdbBuilder.dbi.modules[k].name
          /\ readback.dbi.value.section_contribs[k]
                 = pdbBuilder.dbi.modules[k].section_contrib
    /\ readback.dbi.value.sec_map.entries = pdbBuilder.dbi.section_entries
    /\ Len(readback.dbi.value.dbg_streams) = 11

\* C28: in the DBI stream written by DbiBuilder::commit every size field of
\* the header equals the number of bytes written for its substream, and
\* DbiStream::read finds every substream at its declared boundary.
C28_SubstreamSizes ==
    /\ pc \in {"pdb_committed", "pdb_reopened"} => SubstreamSizesMatch
    /\ (pc = "pdb_reopened" /\ pdbFile.tag = "ok"
            /\ stream_input(sink.data, pdbFile, BuiltinStream_Dbi).tag = "ok"
            /\ stream_input(sink.data, pdbFile, BuiltinStream_Dbi).value
                   = DbiHeader_encode(pdbRead.header) \o pdbRead.parts.modi
                         \o pdbRead.parts.sec_contr \o pdbRead.parts.section_map
                         \o pdbRead.parts.file_info \o pdbRead.parts.type_server
                         \o pdbRead.parts.ec \o pdbRead.parts.optional_db)
           => SubstreamsFound

\* no module of the builder has a DbiModule whose size is a multiple of
\* RECORD_ALIGNMENT
NoAlignedModule ==
    \A k \in DOMAIN pdbBuilder.dbi.modules :
        (ModuleInfoHeader_encoded_size + Len(pdbBuilder.dbi.modules[k].name) + 1
            + Len(pdbBuilder.dbi.modules[k].obj_file_name) + 1) % RECORD_ALIGNMENT # 0

\* C28 for the builders without such a module
C28_SizesWithoutAlignedModule ==
    /\ (pc \in {"pdb_committed", "pdb_reopened"} /\ NoAlignedModule)
           => SubstreamSizesMatch
    /\ (pc = "pdb_reopened" /\ NoAlignedModule /\ pdbFile.tag = "ok"
            /\ stream_input(sink.data, pdbFile, BuiltinStream_Dbi).tag = "ok"
            /\ stream_input(sink.data, pdbFile, BuiltinStream_Dbi).value
                   = DbiHeader_encode(pdbRead.header) \o pdbRead.parts.modi
                         \o pdbRead.parts.sec_contr \o pdbRead.parts.section_map
                         \o pdbRead.parts.file_info \o pdbRead.parts.type_server
                         \o pdbRead.parts.ec \o pdbRead.parts.optional_db)
           => SubstreamsFound

\* the only size field that differs is modi_stream_size
C28_OtherSizesMatch ==
    pc \in {"pdb_committed", "pdb_reopened"} =>
        /\ pdbRead.header.sec_contr_stream_size = Len(pdbRead.parts.sec_contr)
        /\ pdbRead.header.section_map_size = Len(pdbRead.parts.section_map)
        /\ pdbRead.header.file_info_size = Len(pdbRead.parts.file_info)
        /\ pdbRead.header.type_server_size = Len(pdbRead.parts.type_server)
        /\ pdbRead.header.ec_stream_size = Len(pdbRead.parts.ec)
        /\ pdbRead.header.optional_db_header_size = Len(pdbRead.parts.optional_db)

\* what get_info and get_dbi return carries the age of the info builder,
\* and the features are [Vc140]
AgeReadBack ==
    /\ readback.info.tag = "ok"
    /\ readback.info.value.header.age = pdbBuilder.info.age
    /\ readback.info.value.features = <<PdbFeature_Vc140>>
    /\ readback.dbi.tag = "ok"
    /\ readback.dbi.value.header.age = pdbBuilder.info.age

\* C21: after commit and reopen the age of the Info stream and the age of
\* the DBI header are the value last given to InfoBuilder::age (1 when it
\* was never called), in whatever order the builder methods were called, and
\* the features of the Info stream are exactly [Vc140]. Stated for the
\* files whose directory lies in consecutive blocks; the others are not
\* opened with the layouts written (C1).
C21_AgePropagation ==
    (pc = "pdb_reopened" /\ DirectoryContiguous) => AgeReadBack

\* C21 for the builders without a module whose DbiModule has an aligned size
C21_AgeWithoutAlignedModule ==
    (pc = "pdb_reopened" /\ DirectoryContiguous /\ NoAlignedModule) => AgeReadBack

\* the Info stream is read back with the age and the feature whatever the
\* modules are
C21_InfoAge ==
    (pc = "pdb_reopened" /\ DirectoryContiguous) =>
        /\ readback.info.tag = "ok"
        /\ readback.info.value.header.age = pdbBuilder.info.age
        /\ readback.info.value.features = <<PdbFeature_Vc140>>

\* ---------------------------------------------------------------------
\* The version checks of PdbInfo::read, DbiStream::read, TypeStream::read
\* ---------------------------------------------------------------------

\* the values a version field is given: the variants of PdbVersion,
\* DbiVersion and TypeStreamVersion, and three values that are no variant
\* of any of them
TypeStreamVersions == {19950410, 19951122, 19961031, 19990903, TypeStreamVersion_V80}
HeaderVersions ==
    PdbVersions \cup DbiVersions \cup TypeStreamVersions \cup {0, 1, 20000405}
HeaderKinds == {"info", "dbi", "tpi", "ipi"}

\* the stream of a default builder, its version field replaced
with_version(bytes, at, version) ==
    [i \in DOMAIN bytes |-> IF i > at /\ i <= at + 4 THEN LE(version, 4)[i - at]
                            ELSE bytes[i]]

InfoStreamOf(version) == with_version(InfoBuilder_commit(InfoBuilder_default), 0, version)

DbiStreamOf(version) ==
    LET h == DbiBuilder_header(DbiBuilder_default, <<>>, <<>>,
                               CHOOSE built \in StringsBuilder_build(StringsBuilder_default) : TRUE,
                               [k \in 1..11 |-> STREAM_INDEX_NONE])
        p == DbiBuilder_parts(DbiBuilder_default, <<>>, <<>>, <<>>,
                              CHOOSE built \in StringsBuilder_build(StringsBuilder_default) : TRUE,
                              [k \in 1..11 |-> STREAM_INDEX_NONE])
    IN  with_version(DbiHeader_encode(h) \o p.modi \o p.sec_contr \o p.section_map
                         \o p.file_info \o p.type_server \o p.ec \o p.optional_db,
                     4, version)

TypeStreamOf(version) ==
    with_version(TypeStreamBuilder_commit(TypeStreamBuilder_default,
                                          BUILTIN_STREAM_COUNT).type_bytes,
                 0, version)

\* the versions each read accepts
AcceptedVersions(kind) ==
    CASE kind = "info" -> SUPPORTED_VERSIOMS
      [] kind = "dbi"  -> {DbiVersion_V70, DbiVersion_V110}
      [] OTHER         -> {TypeStreamVersion_V80}

\* the variants of the enum the version field of each header decodes to
VersionVariants(kind) ==
    CASE kind = "info" -> PdbVersions
      [] kind = "dbi"  -> DbiVersions
      [] OTHER         -> TypeStreamVersions

InitVersions ==
    /\ pc = "header"
    /\ headerArg \in [kind : HeaderKinds, version : HeaderVersions]
    /\ headerRes = <<>>
    /\ IdleEarly /\ IdleMsf /\ IdleSeek /\ IdleSyms /\ IdlePdb

\* PdbInfo::read on an Info stream with the version
ReadInfoHeader ==
    /\ pc = "header"
    /\ headerArg.kind = "info"
    /\ headerRes' = PdbInfo_read(InfoStreamOf(headerArg.version))
    /\ pc' = "header_read"
    /\ UNCHANGED <<headerArg, exceptVer>>

\* DbiStream::read on a DBI stream with the version, in a build with or
\* without debug assertions
ReadDbiHeader ==
    /\ pc = "header"
    /\ headerArg.kind = "dbi"
    /\ \E dbg \in BOOLEAN : headerRes' = DbiStream_read(DbiStreamOf(headerArg.version), dbg)
    /\ pc' = "header_read"
    /\ UNCHANGED <<headerArg, exceptVer>>

\* TypeStream::read on a TPI or IPI stream with the version
ReadTypeHeader ==
    /\ pc = "header"
    /\ headerArg.kind \in {"tpi", "ipi"}
    /\ headerRes' = TypeStream_read(TypeStreamOf(headerArg.version))
    /\ pc' = "header_read"
    /\ UNCHANGED <<headerArg, exceptVer>>

NextVersions == ReadInfoHeader \/ ReadDbiHeader \/ ReadTypeHeader

SpecVersions == InitVersions /\ [][NextVersions]_vars

\* C23: PdbInfo::read, DbiStream::read and TypeStream::read return
\* UnsupportedFeature, and no stream object, for every header version
\* outside the versions they accept.
C23_UnsupportedVersions ==
    (pc = "header_read" /\ headerArg.version \notin AcceptedVersions(headerArg.kind)) =>
        /\ headerRes.tag = "err"
        /\ Error_kind(headerRes) = "UnsupportedFeature"

\* C23 for the versions that are variants of the enum of the header
C23_UnsupportedVariants ==
    (pc = "header_read" /\ headerArg.version \notin AcceptedVersions(headerArg.kind)
        /\ headerArg.version \in VersionVariants(headerArg.kind)) =>
        /\ headerRes.tag = "err"
        /\ Error_kind(headerRes) = "UnsupportedFeature"

\* a version that is no variant fails in the decoder of the header; no
\* stream object is returned for any version that is not accepted, and one
\* is returned for each that is
C23_NoStreamObject ==
    pc = "header_read" =>
        /\ headerArg.version \notin VersionVariants(headerArg.kind) =>
              (headerRes.tag = "err" /\ Error_kind(headerRes) = "EncodingFailed")
        /\ headerRes.tag = "ok" <=> headerArg.version \in AcceptedVersions(headerArg.kind)

====
